---------------------------- MODULE Spec2Model ----------------------------
(***************************************************************************)
(* Model of the quiz session core of the AI2Thor dataset viewer:          *)
(* session_manager.py (session store, answer recorder, bookmark manager,  *)
(* navigator, statistics) and the event handlers of viewer.py that drive  *)
(* it.                                                                     *)
(*                                                                         *)
(* Specifications                                                          *)
(*   Spec      the viewer: every step is one event handler of viewer.py    *)
(*   SpecApi   session_manager.py called directly, with any arguments      *)
(*   SpecNav   the two navigator functions applied to drawn inputs         *)
(*   SpecStore the viewer started on a live-session file of any content    *)
(*   SpecDir   the lookups by id and the listing on a sessions directory   *)
(*   SpecReport analyze_session.py and get_session_stats on stored sessions *)
(*   SpecCrash the library in a process that may stop during a save        *)
(*   SpecLegacy the recorder on sessions that lack the count fields        *)
(*   SpecSkip  the evaluator pressing "next" and answering each row shown   *)
(*   SpecRestore the viewer started after an earlier run that archived     *)
(***************************************************************************)
EXTENDS Integers, Sequences, FiniteSets, TLC

VARIABLES
    clock,                  \* datetime.now(), in ticks
    live_file,              \* sessions/current_session.json
    archive,                \* sessions/session_<id>.json, by file stem
    current_session,        \* gr.State current_session
    current_split,          \* gr.State current_split (the loaded split)
    current_row_idx,        \* gr.State current_row_idx
    correct_answer_state,   \* gr.State correct_answer_state
    last                    \* the call that made the last step, and its result

vars == <<clock, live_file, archive, current_session, current_split,
          current_row_idx, correct_answer_state, last>>

(***************************************************************************)
(* Bounds of the model.                                                    *)
(***************************************************************************)
MaxClock == 5
RowsRotation == 3
RowsTrain == 2
MaxCalls == 3
MaxNavTotal == 4

(***************************************************************************)
(* Python values.                                                          *)
(***************************************************************************)
\* None, and the other Python values a variable that holds a session may hold.
\* Every such value is a function, so that any two of them compare.
None == [py |-> "None"]
IsNone(v) == v = None

\* An optional integer: None or Some(n).
Some(n) == [some |-> n]

Max(a, b) == IF a >= b THEN a ELSE b
Min(a, b) == IF a <= b THEN a ELSE b

\* A str that the program takes apart is a sequence of characters.
Digits == <<"0", "1", "2", "3", "4", "5", "6", "7", "8", "9">>
DigitVal(c) == (CHOOSE i \in 1..10 : Digits[i] = c) - 1

\* str(n) for n >= 0: the decimal digits, most significant first.
RECURSIVE str(_)
str(n) == IF n < 10 THEN <<Digits[n + 1]>>
          ELSE Append(str(n \div 10), Digits[(n % 10) + 1])

\* int(s) for a str of decimal digits.
RECURSIVE int(_)
int(s) == IF Len(s) = 0 THEN 0
          ELSE 10 * int(SubSeq(s, 1, Len(s) - 1)) + DigitVal(s[Len(s)])

\* Python's order "<" on strs of digits: by character, a prefix first.
RECURSIVE StrLess(_, _)
StrLess(s, t) ==
    IF Len(t) = 0 THEN FALSE
    ELSE IF Len(s) = 0 THEN TRUE
    ELSE IF s[1] # t[1] THEN DigitVal(s[1]) < DigitVal(t[1])
    ELSE StrLess(Tail(s), Tail(t))

\* sorted(S) for a set of integers: ascending.
RECURSIVE sorted(_)
sorted(S) == IF S = {} THEN <<>>
             ELSE LET m == CHOOSE x \in S : \A y \in S : x <= y
                  IN  <<m>> \o sorted(S \ {m})

\* list(reversed(s))
reversed(s) == [i \in 1..Len(s) |-> s[Len(s) + 1 - i]]

Range(s) == {s[i] : i \in 1..Len(s)}

\* Mutant of list_remove: drops the first element, whatever it is.
list_remove_head(s, x) == Tail(s)

\* list.remove(x): drops the first occurrence of x (x is in s).
list_remove(s, x) ==
    LET i == CHOOSE j \in 1..Len(s) : s[j] = x /\ \A k \in 1..(j-1) : s[k] # x
    IN  SubSeq(s, 1, i - 1) \o SubSeq(s, i + 1, Len(s))


\* d[k] = v on a dict: adds the key or overwrites its value.
SetItem(d, k, v) ==
    IF k \in DOMAIN d THEN [d EXCEPT ![k] = v]
    ELSE [x \in (DOMAIN d) \cup {k} |-> IF x = k THEN v ELSE d[x]]

\* d.get(k, default)
Get(d, k, default) == IF k \in DOMAIN d THEN d[k] ELSE default

EmptyDict == <<>>

(***************************************************************************)
(* The row source (the loaded HuggingFace split): a dataset/split pair     *)
(* with its rows.  Two of the pairs the dropdowns offer are modelled.      *)
(***************************************************************************)
DATASET_1_NAME == "Dataset 1: ai2thor-vsi-eval-400"
DATASET_3_NAME == "Dataset 3: ai2thor-multiview-counting"

Split(dataset, split_subset) == [dataset |-> dataset, split_subset |-> split_subset]

Pairs == {Split(DATASET_1_NAME, "rotation"), Split(DATASET_3_NAME, "train")}

\* len(split)
RowCount(split) ==
    IF split.dataset = DATASET_1_NAME THEN RowsRotation ELSE RowsTrain

\* The choice letters of the answer buttons that are shown, as strs.
Letters == {<<"A">>, <<"B">>}

\* get_row_data(split, idx, dtype)['metadata']: the row's answer, question
\* and query_object (only dataset 3 has the latter).  Dataset 3's answer is
\* row.get("answer", "").strip().upper(), relabelled; dataset 1's is the row's
\* field as the dataset holds it, and every third row holds its letter with
\* a space after it.
RowAnswer(split, idx) ==
    IF split.dataset = DATASET_1_NAME /\ idx % 3 = 2 THEN <<"A", " ">>
    ELSE IF idx % 2 = 0 THEN <<"A">> ELSE <<"B">>
RowQuestion(split, idx) == <<"question", split.split_subset, idx>>
RowQueryObject(split, idx) ==
    IF split.dataset = DATASET_3_NAME THEN <<"object", idx % 2>> ELSE <<>>

(***************************************************************************)
(* Time.  datetime.now().isoformat() keeps the full resolution of the      *)
(* clock; the session id, strftime("%Y%m%d_%H%M%S"), keeps whole seconds.  *)
(***************************************************************************)
TicksPerSecond == 2

isoformat(t) == t
strftime_id(t) == str(t \div TicksPerSecond)

(***************************************************************************)
(* Files.  A file is missing, or holds JSON text (its value is kept), or   *)
(* holds something json.load cannot read.                                  *)
(***************************************************************************)
Missing == [kind |-> "missing"]
MalformedFile == [kind |-> "malformed"]       \* text that is not JSON
UndecodableFile == [kind |-> "undecodable"]   \* bytes that are not text
UnreadableFile == [kind |-> "unreadable"]     \* open() fails

\* JSON text, by what it holds for each value: a number is written as its
\* decimal digits, a bool as the literal true or false, a str as its
\* characters, a list as the texts of its items and a dict as the texts of
\* its values under its keys.
json_number(n) == IF n < 0 THEN <<"-">> \o str(0 - n) ELSE str(n)
json_literal(b) == IF b THEN "true" ELSE "false"

\* The fields of a session that hold an int.
IntFields ==
    {"total_questions", "answered_count", "correct_count", "incorrect_count",
     "current_row"}

\* Mutant of json_answer: the timestamp of a record is not written.
json_answer_without_timestamp(a) ==
    [f \in DOMAIN a \ {"timestamp"} |->
        IF f = "is_correct" THEN json_literal(a[f]) ELSE a[f]]

\* The text of an AnswerRecord: is_correct is a bool, the rest are strs.
json_answer(a) ==
    [f \in DOMAIN a |-> IF f = "is_correct" THEN json_literal(a[f]) ELSE a[f]]

\* json.dumps(value, indent=2): the text of a session, or of another value.
json_dumps(value) ==
    [f \in DOMAIN value |->
        IF f \in IntFields THEN json_number(value[f])
        ELSE IF f = "bookmarks"
        THEN [i \in 1..Len(value[f]) |-> json_number(value[f][i])]
        ELSE IF f = "answers"
        THEN [k \in DOMAIN value[f] |-> json_answer(value[f][k])]
        ELSE value[f]]

\* The int a reader gets from the text of a number.
json_int(text) == IF Head(text) = "-" THEN 0 - int(Tail(text)) ELSE int(text)

\* The AnswerRecord a reader gets from its text.
answer_of_json(text) ==
    [f \in DOMAIN text |-> IF f = "is_correct" THEN text[f] = "true" ELSE text[f]]

\* json.loads(text): the value a reader gets from the text.
json_loads(text) ==
    [f \in DOMAIN text |->
        IF f \in IntFields THEN json_int(text[f])
        ELSE IF f = "bookmarks"
        THEN [i \in 1..Len(text[f]) |-> json_int(text[f][i])]
        ELSE IF f = "answers"
        THEN [k \in DOMAIN text[f] |-> answer_of_json(text[f][k])]
        ELSE text[f]]

\* json.dump(session, f, indent=2): the content of the file afterwards.  A
\* file that holds JSON text is kept by the value json.load reads from it.
json_dump(session) == json_loads(json_dumps(session))

JsonFile(value) == [kind |-> "json", value |-> value]

\* What open(path, "r") and json.load(f) do on a file that exists.
ReadOutcome(file) ==
    CASE file.kind = "json" -> "ok"
      [] file.kind = "malformed" -> "JSONDecodeError"
      [] file.kind = "undecodable" -> "UnicodeDecodeError"
      [] file.kind = "unreadable" -> "IOError"

Returned(v) == [raised |-> FALSE, value |-> v]
\* The value of an outcome that raised is the exception, a record as every
\* other value is, so that any two outcomes compare.
Raised(e) == [raised |-> TRUE, value |-> [exception |-> e]]

\* with open(path, "r") as f: return json.load(f)
\* except (json.JSONDecodeError, IOError): return None
CaughtOnLoad == {"JSONDecodeError", "IOError"}

read_json_or_none(file) ==
    IF ReadOutcome(file) = "ok" THEN Returned(file.value)
    ELSE IF ReadOutcome(file) \in CaughtOnLoad THEN Returned(None)
    ELSE Raised(ReadOutcome(file))

(***************************************************************************)
(* session_manager.py                                                      *)
(***************************************************************************)
create_empty_session(dataset, split_subset, now) ==
    [id |-> strftime_id(now),
     created_at |-> isoformat(now),
     updated_at |-> isoformat(now),
     dataset |-> dataset,
     split_subset |-> split_subset,
     total_questions |-> 0,
     answered_count |-> 0,
     correct_count |-> 0,
     incorrect_count |-> 0,
     answers |-> EmptyDict,
     bookmarks |-> <<>>,
     current_row |-> 0]

load_current_session(file) ==
    IF file.kind # "missing" THEN read_json_or_none(file) ELSE Returned(None)

\* Returns the session as the call leaves it, and the file it wrote.
save_current_session(session, now) ==
    LET s == SetItem(session, "updated_at", isoformat(now))
    IN  [session |-> s, file |-> JsonFile(json_dump(s))]

\* f"session_{session['id']}": the stem of an archive file.
SessionPrefix == <<"s", "e", "s", "s", "i", "o", "n", "_">>

\* Mutant of archive_session: the session archived is reset for a new attempt.
archive_session_resetting(session, now) ==
    LET s == SetItem(session, "archived_at", isoformat(now))
        r == SetItem(SetItem(s, "bookmarks", <<>>), "current_row", 0)
    IN  [session |-> r,
         stem |-> SessionPrefix \o s.id,
         file |-> JsonFile(json_dump(s))]

\* Returns the session as the call leaves it, the file's stem and content.
archive_session(session, now) ==
    LET s == SetItem(session, "archived_at", isoformat(now))
    IN  [session |-> s,
         stem |-> SessionPrefix \o s.id,
         file |-> JsonFile(json_dump(s))]

AnswerRecord(question, user_answer, correct_answer, is_correct, query_object, now) ==
    [question |-> question,
     user_answer |-> user_answer,
     correct_answer |-> correct_answer,
     is_correct |-> is_correct,
     query_object |-> query_object,
     timestamp |-> isoformat(now)]

is_row_answered(session, row_idx) == str(row_idx) \in DOMAIN session.answers

is_row_bookmarked(session, row_idx) == row_idx \in Range(session.bookmarks)

\* Mutant of record_answer: without the "only if not already answered" test.
record_answer_overwrite(session, row_idx, question, user_answer, correct_answer, is_correct, query_object, now) ==
    LET answers == SetItem(session.answers, str(row_idx),
                       [question |-> question, user_answer |-> user_answer,
                        correct_answer |-> correct_answer, is_correct |-> is_correct,
                        query_object |-> query_object, timestamp |-> isoformat(now)])
        s1 == SetItem(session, "answers", answers)
        s2 == SetItem(s1, "answered_count", Cardinality(DOMAIN answers))
        s3 == IF is_correct
              THEN SetItem(s2, "correct_count", s2.correct_count + 1)
              ELSE SetItem(s2, "incorrect_count", s2.incorrect_count + 1)
        s4 == SetItem(s3, "updated_at", isoformat(now))
    IN  [session |-> s4, saved |-> TRUE, file |-> [kind |-> "json", value |-> s4]]

\* Returns [session, saved, file]: file is what the call wrote, if saved.
record_answer(session, row_idx, question, user_answer, correct_answer, is_correct, query_object, now) ==
    LET row_key == str(row_idx) IN
    IF row_key \notin DOMAIN session.answers
    THEN LET answers == SetItem(session.answers, row_key,
                            AnswerRecord(question, user_answer, correct_answer,
                                         is_correct, query_object, now))
             s1 == SetItem(session, "answers", answers)
             s2 == SetItem(s1, "answered_count", Cardinality(DOMAIN answers))
             s3 == IF is_correct
                   THEN SetItem(s2, "correct_count", s2.correct_count + 1)
                   ELSE SetItem(s2, "incorrect_count", s2.incorrect_count + 1)
             sv == save_current_session(s3, now)
         IN  [session |-> sv.session, saved |-> TRUE, file |-> sv.file]
    ELSE [session |-> session, saved |-> FALSE, file |-> Missing]

\* record_answer reads session["answers"] and, by is_correct, adds one to
\* session["correct_count"] or session["incorrect_count"]: a KeyError when
\* the session lacks the field.
record_answer_raises(session, is_correct) ==
    \/ "answers" \notin DOMAIN session
    \/ is_correct /\ "correct_count" \notin DOMAIN session
    \/ ~is_correct /\ "incorrect_count" \notin DOMAIN session

\* Mutant of init_missing_fields: a count that is missing starts at zero.
init_missing_fields_zero(session) ==
    LET s0 == IF "answers" \notin DOMAIN session
              THEN SetItem(session, "answers", EmptyDict) ELSE session
        s1 == IF "answered_count" \notin DOMAIN s0
              THEN SetItem(s0, "answered_count", 0) ELSE s0
        s2 == IF "correct_count" \notin DOMAIN s1
              THEN SetItem(s1, "correct_count", 0) ELSE s1
    IN  IF "incorrect_count" \notin DOMAIN s2
        THEN SetItem(s2, "incorrect_count", 0) ELSE s2

\* Backward compatibility: the fields a session predating them lacks.
init_missing_fields(session) ==
    LET s0 == IF "answers" \notin DOMAIN session
              THEN SetItem(session, "answers", EmptyDict) ELSE session
        keys(P(_)) == {k \in DOMAIN s0.answers : P(s0.answers[k])}
        IsCorrect(a) == Get(a, "is_correct", FALSE) = TRUE
        NotCorrect(a) == ~IsCorrect(a)
        s1 == IF "answered_count" \notin DOMAIN s0
              THEN SetItem(s0, "answered_count", Cardinality(DOMAIN s0.answers))
              ELSE s0
        s2 == IF "correct_count" \notin DOMAIN s1
              THEN SetItem(s1, "correct_count", Cardinality(keys(IsCorrect)))
              ELSE s1
    IN  IF "incorrect_count" \notin DOMAIN s2
        THEN SetItem(s2, "incorrect_count", Cardinality(keys(NotCorrect)))
        ELSE s2

\* Mutant of remove_old_count: the old bucket is decremented without a floor.
remove_old_count_unclamped(session, was_answered, previous_correct) ==
    IF was_answered
    THEN IF previous_correct
         THEN SetItem(session, "correct_count",
                      Get(session, "correct_count", 0) - 1)
         ELSE SetItem(session, "incorrect_count",
                      Get(session, "incorrect_count", 0) - 1)
    ELSE session

\* Mutant of remove_old_count: decrements the other bucket.
remove_old_count_swapped(session, was_answered, previous_correct) ==
    IF was_answered
    THEN IF previous_correct
         THEN SetItem(session, "incorrect_count",
                      Max(0, Get(session, "incorrect_count", 0) - 1))
         ELSE SetItem(session, "correct_count",
                      Max(0, Get(session, "correct_count", 0) - 1))
    ELSE session

\* "If changing an existing answer, adjust counts": the old bucket, as the
\* caller describes it, is decremented and floored at zero.
remove_old_count(session, was_answered, previous_correct) ==
    IF was_answered
    THEN IF previous_correct
         THEN SetItem(session, "correct_count",
                      Max(0, Get(session, "correct_count", 0) - 1))
         ELSE SetItem(session, "incorrect_count",
                      Max(0, Get(session, "incorrect_count", 0) - 1))
    ELSE session

\* "Update counts": answered_count from the dict, the new bucket incremented.
update_counts(session, is_correct) ==
    LET s == SetItem(session, "answered_count", Cardinality(DOMAIN session.answers))
    IN  IF is_correct
        THEN SetItem(s, "correct_count", Get(s, "correct_count", 0) + 1)
        ELSE SetItem(s, "incorrect_count", Get(s, "incorrect_count", 0) + 1)

\* Returns [session, file]: the session as the call leaves it, the file it wrote.
record_answer_allow_change(session, row_idx, question, user_answer, correct_answer, is_correct, query_object, was_answered, previous_correct, now) ==
    LET row_key == str(row_idx)
        s0 == init_missing_fields(session)
        s1 == remove_old_count(s0, was_answered, previous_correct)
        s2 == SetItem(s1, "answers",
                  SetItem(s1.answers, row_key,
                      AnswerRecord(question, user_answer, correct_answer,
                                   is_correct, query_object, now)))
        s3 == update_counts(s2, is_correct)
    IN  save_current_session(s3, now)

\* Mutant of toggle_in_list: appends whether or not the row is present.
toggle_in_list_append(bookmarks, row_idx) == Append(bookmarks, row_idx)

\* The list after the toggle: remove(row_idx) if present, else append.
toggle_in_list(bookmarks, row_idx) ==
    IF row_idx \in Range(bookmarks)
    THEN list_remove(bookmarks, row_idx)
    ELSE Append(bookmarks, row_idx)

\* Returns [session, file].
toggle_bookmark(session, row_idx, now) ==
    save_current_session(
        SetItem(session, "bookmarks", toggle_in_list(session.bookmarks, row_idx)),
        now)

\* The while loop of get_next_unanswered_row, from (checked, idx).
RECURSIVE unanswered_loop(_, _, _, _, _, _)
unanswered_loop(session, current_idx, total_rows, direction, checked, idx) ==
    IF checked < total_rows
    THEN LET nxt == (idx + direction) % total_rows
         IN  IF ~is_row_answered(session, nxt) THEN nxt
             ELSE unanswered_loop(session, current_idx, total_rows, direction,
                                  checked + 1, nxt)
    ELSE current_idx

\* The number of times the loop of get_next_unanswered_row runs its body.
RECURSIVE unanswered_loop_steps(_, _, _, _, _)
unanswered_loop_steps(session, total_rows, direction, checked, idx) ==
    IF checked < total_rows
    THEN LET nxt == (idx + direction) % total_rows
         IN  IF ~is_row_answered(session, nxt) THEN checked + 1
             ELSE unanswered_loop_steps(session, total_rows, direction,
                                        checked + 1, nxt)
    ELSE checked

\* Mutant of get_next_unanswered_row: only the adjacent row is looked at.
get_next_unanswered_row_adjacent(session, current_idx, total_rows, direction) ==
    IF total_rows > 0
       /\ ~is_row_answered(session, (current_idx + direction) % total_rows)
    THEN (current_idx + direction) % total_rows
    ELSE current_idx

\* Mutant of get_next_unanswered_row: steps forward whatever the direction.
get_next_unanswered_row_forward(session, current_idx, total_rows, direction) ==
    unanswered_loop(session, current_idx, total_rows, 1, 0, current_idx)

get_next_unanswered_row(session, current_idx, total_rows, direction) ==
    unanswered_loop(session, current_idx, total_rows, direction, 0, current_idx)

\* sorted(S) for a set of strs of digits: ascending in the order of strs.
RECURSIVE sorted_strs(_)
sorted_strs(S) ==
    IF S = {} THEN <<>>
    ELSE LET m == CHOOSE x \in S : \A y \in S : x = y \/ StrLess(x, y)
         IN  <<m>> \o sorted_strs(S \ {m})

\* Mutant of get_answered_rows: sorts the keys as strs, then converts them.
get_answered_rows_by_key(session) ==
    IF IsNone(session) \/ "answers" \notin DOMAIN session THEN <<>>
    ELSE LET keys == sorted_strs(DOMAIN session.answers)
         IN  [i \in 1..Len(keys) |-> int(keys[i])]

get_answered_rows(session) ==
    IF IsNone(session) \/ "answers" \notin DOMAIN session THEN <<>>
    ELSE sorted({int(k) : k \in DOMAIN session.answers})

\* for idx in seq: if idx > current_idx: return idx -- the position of the
\* first hit in seq, 0 if the loop ends without one.
FirstAbove(seq, current_idx) ==
    IF \E i \in 1..Len(seq) : seq[i] > current_idx
    THEN CHOOSE i \in 1..Len(seq) :
             seq[i] > current_idx /\ \A j \in 1..(i-1) : ~(seq[j] > current_idx)
    ELSE 0

\* for idx in seq: if idx < current_idx: return idx
FirstBelow(seq, current_idx) ==
    IF \E i \in 1..Len(seq) : seq[i] < current_idx
    THEN CHOOSE i \in 1..Len(seq) :
             seq[i] < current_idx /\ \A j \in 1..(i-1) : ~(seq[j] < current_idx)
    ELSE 0

\* Mutant of get_next_answered_row: without the wrap-around, the current
\* index is returned when no answered row lies further in the direction.
get_next_answered_row_no_wrap(session, current_idx, direction) ==
    LET answered == get_answered_rows(session)
        rev == reversed(answered)
    IN  IF answered = <<>> THEN None
        ELSE IF direction = 1
        THEN IF FirstAbove(answered, current_idx) # 0
             THEN Some(answered[FirstAbove(answered, current_idx)])
             ELSE Some(current_idx)
        ELSE IF FirstBelow(rev, current_idx) # 0
             THEN Some(rev[FirstBelow(rev, current_idx)])
             ELSE Some(current_idx)

get_next_answered_row(session, current_idx, direction) ==
    LET answered == get_answered_rows(session)
        rev == reversed(answered)
    IN  IF answered = <<>> THEN None
        ELSE IF direction = 1
        THEN IF FirstAbove(answered, current_idx) # 0
             THEN Some(answered[FirstAbove(answered, current_idx)])
             ELSE Some(answered[1])
        ELSE IF FirstBelow(rev, current_idx) # 0
             THEN Some(rev[FirstBelow(rev, current_idx)])
             ELSE Some(answered[Len(answered)])

\* Mutant of call_get_next_unanswered_row: the function moves the cursor.
call_get_next_unanswered_row_moving(session, current_idx, total_rows, direction) ==
    LET result == get_next_unanswered_row(session, current_idx, total_rows, direction)
    IN  [result |-> result, session |-> SetItem(session, "current_row", result)]

\* A call of a navigator function: the value it returns and the session dict
\* it was given, as the call leaves it.  Neither function assigns to the
\* session, and neither opens a file.
call_get_next_unanswered_row(session, current_idx, total_rows, direction) ==
    [result |-> get_next_unanswered_row(session, current_idx, total_rows, direction),
     session |-> session]

call_get_next_answered_row(session, current_idx, direction) ==
    [result |-> get_next_answered_row(session, current_idx, direction),
     session |-> session]

\* Mutant of get_session_stats: the quotients without their guards.
get_session_stats_unguarded(session) ==
    LET total == Get(session, "total_questions", 0)
        answered == Get(session, "answered_count", 0)
        correct == Get(session, "correct_count", 0)
        incorrect == Get(session, "incorrect_count", 0)
    IN  [total |-> total,
         answered |-> answered,
         remaining |-> total - answered,
         correct |-> correct,
         incorrect |-> incorrect,
         accuracy |-> <<correct * 100, answered>>,
         progress |-> <<answered * 100, total>>,
         bookmarks |-> Len(Get(session, "bookmarks", <<>>))]

get_session_stats(session) ==
    LET total == Get(session, "total_questions", 0)
        answered == Get(session, "answered_count", 0)
        correct == Get(session, "correct_count", 0)
        incorrect == Get(session, "incorrect_count", 0)
    IN  [total |-> total,
         answered |-> answered,
         remaining |-> total - answered,
         correct |-> correct,
         incorrect |-> incorrect,
         \* percentages, as the pair numerator/denominator of the quotient
         accuracy |-> IF answered > 0 THEN <<correct * 100, answered>> ELSE <<0, 1>>,
         progress |-> IF total > 0 THEN <<answered * 100, total>> ELSE <<0, 1>>,
         bookmarks |-> Len(Get(session, "bookmarks", <<>>))]

(***************************************************************************)
(* viewer.py: the event handlers.  Each returns its outputs (the gr.State  *)
(* values it sets), the live-session file as it leaves it, and whether it  *)
(* raised; a handler that raises sets no output.                           *)
(***************************************************************************)
\* A dict that is not empty is true; None and {} are false; a list [1] is true.
Truthy(v) == ~IsNone(v) /\ DOMAIN v # {}
IsDict(v) == "py" \notin DOMAIN v
JsonList == [py |-> "list"]

\* Mutant of BoundTo: any session counts as bound to the requested pair.
BoundTo_any(session, dataset_choice, split_or_subset) == TRUE

\* session.get("dataset") == dataset_choice and
\* session.get("split_subset") == split_or_subset
BoundTo(session, dataset_choice, split_or_subset) ==
    /\ "dataset" \in DOMAIN session
    /\ session.dataset = dataset_choice
    /\ "split_subset" \in DOMAIN session
    /\ session.split_subset = split_or_subset

Outputs(split, row_idx, session, correct_answer, file) ==
    [raised |-> FALSE, split |-> split, row_idx |-> row_idx,
     session |-> session, correct_answer |-> correct_answer, file |-> file]

\* The handler raised after leaving the live-session file as `file`.
HandlerRaised(file) == [raised |-> TRUE, file |-> file]

\* display_row_data(split, idx, dtype, session); get_row_data raises
\* IndexError for an index that is not a row.
display_row_data(split, idx, session, file) ==
    IF IsNone(split) THEN Outputs(split, idx, session, <<>>, file)
    ELSE IF idx < 0 \/ idx >= RowCount(split) THEN HandlerRaised(file)
    ELSE Outputs(split, idx, session, RowAnswer(split, idx), file)

\* idx = int(row_num) - 1 if row_num else 0; idx = max(0, min(idx, total_rows - 1))
row_index(row_num, total_rows) ==
    LET idx == IF row_num # 0 THEN row_num - 1 ELSE 0
    IN  Max(0, Min(idx, total_rows - 1))

\* The live file holds a session bound to the pair.
LiveBoundTo(file, split) ==
    /\ file.kind = "json"
    /\ Truthy(file.value)
    /\ IsDict(file.value)
    /\ BoundTo(file.value, split.dataset, split.split_subset)

\* The interface holds a session bound to the pair.
HeldBoundTo(session, split) ==
    /\ ~IsNone(session)
    /\ BoundTo(session, split.dataset, split.split_subset)

\* The branch of "Load or create session" that a call takes.
branch_of(session, file, split) ==
    IF HeldBoundTo(session, split) THEN "reused"
    ELSE IF LiveBoundTo(file, split) THEN "resumed"
    ELSE "created"

\* Mutant of load_or_create: a session not held is created, never resumed.
load_or_create_never_resume(dataset_choice, split_or_subset, total_rows, session, file, now) ==
    IF IsNone(session) \/ ~BoundTo(session, dataset_choice, split_or_subset)
    THEN LET created == SetItem(
                 create_empty_session(dataset_choice, split_or_subset, now),
                 "total_questions", total_rows)
             sv == save_current_session(created, now)
         IN  [raised |-> FALSE, session |-> sv.session, file |-> sv.file]
    ELSE [raised |-> FALSE,
          session |-> SetItem(session, "total_questions", total_rows),
          file |-> file]

\* "Load or create session": [raised, session, file].
load_or_create(dataset_choice, split_or_subset, total_rows, session, file, now) ==
    IF IsNone(session) \/ ~BoundTo(session, dataset_choice, split_or_subset)
    THEN LET existing == load_current_session(file) IN
         IF existing.raised THEN HandlerRaised(file)
         ELSE IF Truthy(existing.value) /\ ~IsDict(existing.value)
         THEN HandlerRaised(file)      \* AttributeError: no .get
         ELSE IF Truthy(existing.value)
                 /\ BoundTo(existing.value, dataset_choice, split_or_subset)
         THEN [raised |-> FALSE, session |-> existing.value, file |-> file]
         ELSE LET created == SetItem(
                      create_empty_session(dataset_choice, split_or_subset, now),
                      "total_questions", total_rows)
                  sv == save_current_session(created, now)
              IN  [raised |-> FALSE, session |-> sv.session, file |-> sv.file]
    ELSE [raised |-> FALSE,
          session |-> SetItem(session, "total_questions", total_rows),
          file |-> file]

load_and_display(dataset_choice, split_or_subset, row_num, session, file, now) ==
    LET split == Split(dataset_choice, split_or_subset)
        total_rows == RowCount(split)
        lc == load_or_create(dataset_choice, split_or_subset, total_rows, session, file, now)
        idx == row_index(row_num, total_rows)
    IN  IF lc.raised THEN lc
        ELSE LET sv == save_current_session(
                           SetItem(lc.session, "current_row", idx), now)
             IN  display_row_data(split, idx, sv.session, sv.file)

\* str.strip(): the str without the whitespace at its ends.
Whitespace == {" ", "\t", "\n"}

RECURSIVE lstrip(_)
lstrip(text) ==
    IF Len(text) > 0 /\ Head(text) \in Whitespace THEN lstrip(Tail(text)) ELSE text

RECURSIVE rstrip(_)
rstrip(text) ==
    IF Len(text) > 0 /\ text[Len(text)] \in Whitespace
    THEN rstrip(SubSeq(text, 1, Len(text) - 1)) ELSE text

strip(text) == lstrip(rstrip(text))

\* c in text, text.split(c)[0] and text.split(c)[-1] for a character c.
Contains(text, c) == \E i \in 1..Len(text) : text[i] = c

split_first(text, c) ==
    IF Contains(text, c)
    THEN SubSeq(text, 1, (CHOOSE i \in 1..Len(text) :
                             /\ text[i] = c
                             /\ \A j \in 1..(i - 1) : text[j] # c) - 1)
    ELSE text

split_last(text, c) ==
    IF Contains(text, c)
    THEN SubSeq(text, (CHOOSE i \in 1..Len(text) :
                          /\ text[i] = c
                          /\ \A j \in (i + 1)..Len(text) : text[j] # c) + 1,
                Len(text))
    ELSE text

\* The text of a choice button as display_row_data and check_answer_and_save
\* set it: "A) ..." and, for the choice answered before, "→ A) ...".
ButtonText(label, highlighted) ==
    (IF highlighted THEN <<"→", " ">> ELSE <<>>) \o label \o <<")", " ", "x">>

ButtonTexts == {ButtonText(label, h) : label \in Letters, h \in BOOLEAN}

\* "Extract user's answer letter" from the text of the button pressed.
user_letter_of(selected_choice) ==
    LET u0 == strip(split_first(selected_choice, ")"))
        u1 == IF Contains(u0, ":") THEN strip(split_last(u0, ":")) ELSE u0
        u2 == IF Len(u1) > 0 /\ Head(u1) = "→" THEN strip(Tail(u1)) ELSE u1
    IN  IF Len(u1) > 0 /\ Head(u1) = "→" /\ Contains(u2, ":")
        THEN strip(split_last(u2, ":")) ELSE u2

\* Mutant of was_answered_of: the caller never looks the row up.
was_answered_never(session, row_idx) == FALSE

\* was_answered and previous_correct, as check_answer_and_save reads them.
was_answered_of(session, row_idx) ==
    str(row_idx) \in DOMAIN Get(session, "answers", EmptyDict)

previous_correct_of(session, row_idx) ==
    IF was_answered_of(session, row_idx)
    THEN Get(session.answers[str(row_idx)], "is_correct", FALSE)
    ELSE FALSE

\* Returns [session, file, wrote]: the session output and the live file.
check_answer_and_save(selected_choice, correct_answer, split, row_idx, session, file, now) ==
    IF selected_choice = <<>> \/ correct_answer = <<>> \/ IsNone(session)
    THEN [session |-> session, file |-> file, wrote |-> FALSE]
    ELSE LET user_letter == user_letter_of(selected_choice)
             is_correct == (user_letter = strip(correct_answer))
             r == record_answer_allow_change(
                      session, row_idx, RowQuestion(split, row_idx), user_letter,
                      correct_answer, is_correct, RowQueryObject(split, row_idx),
                      was_answered_of(session, row_idx),
                      previous_correct_of(session, row_idx), now)
         IN  [session |-> r.session, file |-> r.file, wrote |-> TRUE]

\* Mutant of set_current_row: the cursor is set and the session is not saved.
set_current_row_unsaved(session, idx, file, now) ==
    IF Truthy(session)
    THEN [session |-> SetItem(session, "current_row", idx), file |-> file]
    ELSE [session |-> session, file |-> file]

\* "if session: session['current_row'] = idx; save_current_session(session)"
set_current_row(session, idx, file, now) ==
    IF Truthy(session)
    THEN save_current_session(SetItem(session, "current_row", idx), now)
    ELSE [session |-> session, file |-> file]

navigate_to_next(split, current_idx, direction, session, file, now) ==
    IF IsNone(split) THEN display_row_data(None, 0, session, file)
    ELSE IF RowCount(split) = 0 THEN HandlerRaised(file)   \* modulo by zero
    ELSE LET total == RowCount(split)
             new_idx == IF Truthy(session)
                        THEN get_next_unanswered_row(session, current_idx, total, direction)
                        ELSE (current_idx + direction) % total
             sv == set_current_row(session, new_idx, file, now)
         IN  display_row_data(split, new_idx, sv.session, sv.file)

goto_row(split, row_num, session, file, now) ==
    IF IsNone(split) THEN display_row_data(None, 0, session, file)
    ELSE LET idx == Max(0, Min(row_num - 1, RowCount(split) - 1))
             sv == set_current_row(session, idx, file, now)
         IN  display_row_data(split, idx, sv.session, sv.file)

\* Mutant of navigate_to_answered: a result of None is used as index 0.
navigate_to_answered_none_as_zero(split, current_idx, direction, session, file, now) ==
    IF IsNone(split) \/ IsNone(session)
    THEN display_row_data(None, 0, session, file)
    ELSE LET found == get_next_answered_row(session, current_idx, direction)
             new_idx == IF IsNone(found) THEN 0 ELSE found.some
             sv == set_current_row(session, new_idx, file, now)
         IN  display_row_data(split, new_idx, sv.session, sv.file)

navigate_to_answered(split, current_idx, direction, session, file, now) ==
    IF IsNone(split) \/ IsNone(session)
    THEN display_row_data(None, 0, session, file)
    ELSE LET found == get_next_answered_row(session, current_idx, direction)
             new_idx == IF IsNone(found) THEN current_idx ELSE found.some
             sv == set_current_row(session, new_idx, file, now)
         IN  display_row_data(split, new_idx, sv.session, sv.file)

\* Returns [session, file].
toggle_bookmark_handler(session, row_idx, file, now) ==
    IF IsNone(session) THEN [session |-> session, file |-> file]
    ELSE toggle_bookmark(session, row_idx, now)

\* Mutant of start_new_session: the session held is replaced, never archived.
start_new_session_no_archive(dataset_choice, split_or_subset, session, file, arch, now) ==
    LET sv == save_current_session(
                  create_empty_session(dataset_choice, split_or_subset, now), now)
    IN  [session |-> sv.session, file |-> sv.file, archive |-> arch]

\* Returns [session, file, archive].
start_new_session(dataset_choice, split_or_subset, session, file, arch, now) ==
    LET archived == Truthy(session) /\ Get(session, "answered_count", 0) > 0
        ar == archive_session(session, now)
        sv == save_current_session(
                  create_empty_session(dataset_choice, split_or_subset, now), now)
    IN  [session |-> sv.session,
         file |-> sv.file,
         archive |-> IF archived THEN SetItem(arch, ar.stem, ar.file) ELSE arch]

\* Mutant of finish_quiz: the session is archived whatever it has answered.
finish_quiz_always_archive(session, arch, now) ==
    IF IsNone(session) THEN [session |-> session, archive |-> arch]
    ELSE LET ar == archive_session(session, now)
         IN  [session |-> ar.session, archive |-> SetItem(arch, ar.stem, ar.file)]

\* Mutant of finish_quiz: an archive file that exists is not written again.
finish_quiz_keep_first(session, arch, now) ==
    IF IsNone(session) THEN [session |-> session, archive |-> arch]
    ELSE IF get_session_stats(session).answered > 0
    THEN LET ar == archive_session(session, now)
         IN  [session |-> ar.session,
              archive |-> IF ar.stem \in DOMAIN arch THEN arch
                          ELSE SetItem(arch, ar.stem, ar.file)]
    ELSE [session |-> session, archive |-> arch]

\* Returns [session, archive].
finish_quiz(session, arch, now) ==
    IF IsNone(session) THEN [session |-> session, archive |-> arch]
    ELSE IF get_session_stats(session).answered > 0
    THEN LET ar == archive_session(session, now)
         IN  [session |-> ar.session, archive |-> SetItem(arch, ar.stem, ar.file)]
    ELSE [session |-> session, archive |-> arch]

\* The name of the live-session file, "current_session" (.json).
CurrentStem ==
    <<"c", "u", "r", "r", "e", "n", "t", "_", "s", "e", "s", "s", "i", "o", "n">>

\* The files of SESSIONS_DIR by name: the archive files and the live file.
SessionsDir(arch, file) ==
    LET names == DOMAIN arch
                 \cup (IF file.kind = "missing" THEN {} ELSE {CurrentStem})
    IN  [name \in names |-> IF name \in DOMAIN arch THEN arch[name] ELSE file]

\* SESSIONS_DIR.glob("session_*.json"): the names that start with "session_".
glob_sessions(dir) ==
    {name \in DOMAIN dir :
        /\ Len(name) >= Len(SessionPrefix)
        /\ SubSeq(name, 1, Len(SessionPrefix)) = SessionPrefix}

\* The summary list_archived_sessions appends for a file that loaded.
Summary(filepath, data) ==
    [id |-> Get(data, "id", None),
     filepath |-> filepath,
     dataset |-> Get(data, "dataset", None),
     split_subset |-> Get(data, "split_subset", None),
     created_at |-> Get(data, "created_at", None),
     answered_count |-> Get(data, "answered_count", 0),
     correct_count |-> Get(data, "correct_count", 0),
     incorrect_count |-> Get(data, "incorrect_count", 0),
     bookmarks |-> Len(Get(data, "bookmarks", <<>>))]

\* sessions.sort(key=created_at, reverse=True) on the summaries appended in
\* the order of the directory listing, whatever it is: the sequences of all
\* the summaries with created_at descending.
sorted_newest_first(summaries) ==
    LET n == Cardinality(summaries) IN
    {seq \in [1..n -> summaries] :
        /\ \A i, j \in 1..n : seq[i] = seq[j] => i = j
        /\ \A i, j \in 1..n : i < j => seq[i].created_at >= seq[j].created_at}

\* The results list_archived_sessions can give.  A file json.load cannot
\* read is skipped when the error is one of CaughtOnLoad; another error, or
\* data.get on a value that is not a dict, or the comparison of a missing
\* created_at (None) in the sort, ends the call.
list_archived_sessions(arch, file) ==
    LET dir == SessionsDir(arch, file)
        names == glob_sessions(dir)
        uncaught == {fp \in names : ReadOutcome(dir[fp]) \notin CaughtOnLoad \cup {"ok"}}
        loaded == {fp \in names : ReadOutcome(dir[fp]) = "ok"}
        notdict == {fp \in loaded : ~IsDict(dir[fp].value)}
        summaries == {Summary(fp, dir[fp].value) : fp \in loaded \ notdict}
    IN  IF uncaught \cup notdict # {}
        THEN {Raised(ReadOutcome(dir[fp])) : fp \in uncaught}
             \cup {Raised("AttributeError") : fp \in notdict}
        ELSE IF Cardinality(summaries) >= 2
                /\ \E fp \in loaded : "created_at" \notin DOMAIN dir[fp].value
        THEN {Raised("TypeError")}
        ELSE {Returned(seq) : seq \in sorted_newest_first(summaries)}

(***************************************************************************)
(* analyze_session.py: the offline reporting tool.  An operation reads the *)
(* sessions directory, prints a report and may write a CSV file.           *)
(***************************************************************************)
\* load_session(filepath): json.load with no except clause.
load_session(file) ==
    IF ReadOutcome(file) = "ok" THEN Returned(file.value)
    ELSE Raised(ReadOutcome(file))

\* str(b) of a bool, as an f-string writes it.
str_bool(b) == IF b THEN "True" ELSE "False"

\* Mutant of sorted_by_int: the keys in the order of strs.
sorted_as_strs(keys) == sorted_strs(keys)

\* sorted(answers.items(), key=lambda x: int(x[0])): the keys by their number.
sorted_by_int(keys) ==
    LET nums == sorted({int(k) : k \in keys})
    IN  [i \in 1..Len(nums) |-> CHOOSE k \in keys : int(k) = nums[i]]

\* One line of the CSV file, by its comma-separated fields.
csv_row(row_idx, data) ==
    [row_idx |-> row_idx,
     question |-> Get(data, "question", <<>>),
     user_answer |-> Get(data, "user_answer", <<>>),
     correct_answer |-> Get(data, "correct_answer", <<>>),
     is_correct |-> str_bool(Get(data, "is_correct", FALSE)),
     query_object |-> Get(data, "query_object", <<>>),
     timestamp |-> Get(data, "timestamp", 0)]

\* Mutant of csv_path: the export goes over the session's archive file.
csv_path_in_store(session) ==
    [dir |-> "sessions", stem |-> SessionPrefix \o Get(session, "id", <<"e">>),
     ext |-> "json"]

\* output_file = f"session_{session.get('id', 'export')}.csv", a path
\* relative to the working directory (SESSIONS_DIR is ./sessions).
csv_path(session) ==
    [dir |-> "cwd", stem |-> SessionPrefix \o Get(session, "id", <<"e">>),
     ext |-> "csv"]

\* The file export_session_csv writes: [path, rows], the header line left out.
export_session_csv(session) ==
    LET answers == Get(session, "answers", EmptyDict)
        order == sorted_by_int(DOMAIN answers)
    IN  [path |-> csv_path(session),
         rows |-> [i \in 1..Len(order) |-> csv_row(order[i], answers[order[i]])]]

\* open(path, "w") and the writes, seen from the sessions directory: a file
\* of another directory or of another name leaves the stored sessions alone.
StoreAfterWrite(arch, file, written) ==
    IF written.path.dir = "sessions" /\ written.path.ext = "json"
    THEN IF written.path.stem = CurrentStem
         THEN [archive |-> arch, file |-> [kind |-> "csv", rows |-> written.rows]]
         ELSE [archive |-> SetItem(arch, written.path.stem,
                                   [kind |-> "csv", rows |-> written.rows]),
               file |-> file]
    ELSE [archive |-> arch, file |-> file]

\* The rows of a set of answers whose is_correct is b, ascending.
rows_where(answers, b) ==
    sorted({int(k) : k \in {x \in DOMAIN answers :
                               (Get(answers[x], "is_correct", FALSE) = TRUE) = b}})

\* What analyze_session(session, verbose) prints, as a record of its figures.
analyze_session(session, verbose) ==
    LET total == Get(session, "total_questions", 0)
        answered == Get(session, "answered_count", 0)
        correct == Get(session, "correct_count", 0)
        incorrect == Get(session, "incorrect_count", 0)
        bookmarks == Get(session, "bookmarks", <<>>)
        answers == Get(session, "answers", EmptyDict)
    IN  [total |-> total,
         answered |-> answered,
         remaining |-> total - answered,
         correct |-> correct,
         incorrect |-> incorrect,
         accuracy |-> IF answered > 0 THEN <<correct * 100, answered>> ELSE <<0, 1>>,
         progress |-> IF total > 0 THEN <<answered * 100, total>> ELSE <<0, 1>>,
         incorrect_rows |-> rows_where(answers, FALSE),
         correct_rows |-> IF verbose THEN rows_where(answers, TRUE) ELSE <<>>,
         bookmarks |-> sorted(Range(bookmarks))]

\* One line of the table list_all_sessions prints.
list_line(label, session) ==
    LET answered == Get(session, "answered_count", 0)
        correct == Get(session, "correct_count", 0)
    IN  [label |-> label,
         answered |-> answered,
         total |-> Get(session, "total_questions", 0),
         accuracy |-> IF answered > 0 THEN <<correct * 100, answered>> ELSE <<0, 1>>,
         bookmarks |-> Len(Get(session, "bookmarks", <<>>))]

\* list_all_sessions(): the lines of the table, in any order of the archive
\* files, or the exception of the first file that does not load or that is
\* not a dict.
list_all_sessions(arch, file) ==
    LET dir == SessionsDir(arch, file)
        names == glob_sessions(dir)
            \cup (IF file.kind = "missing" THEN {} ELSE {CurrentStem})
        unread == {fp \in names : ReadOutcome(dir[fp]) # "ok"}
        notdict == {fp \in names \ unread : ~IsDict(dir[fp].value)}
    IN  IF unread \cup notdict # {}
        THEN {Raised(ReadOutcome(dir[fp])) : fp \in unread}
             \cup {Raised("AttributeError") : fp \in notdict}
        ELSE {Returned({list_line(fp, dir[fp].value) : fp \in names})}

\* The options of the command line.
Args(list, current, session, export, all, quiet) ==
    [list |-> list, current |-> current, session |-> session,
     export |-> export, all |-> all, quiet |-> quiet]

\* What one run printed and wrote: [raised, printed, written].
Ran(printed, written) == [raised |-> FALSE, printed |-> printed, written |-> written]
RunRaised == [raised |-> TRUE, printed |-> {}, written |-> {}]

\* analyze_session and, with --export, export_session_csv, on a file.
analyze_file(file, args) ==
    LET loaded == load_session(file) IN
    IF loaded.raised \/ ~IsDict(loaded.value) THEN RunRaised
    ELSE Ran({analyze_session(loaded.value, ~args.quiet)},
             IF args.export THEN {export_session_csv(loaded.value)} ELSE {})

\* main(): the set of the runs the options can give.
main(args, arch, file) ==
    LET dir == SessionsDir(arch, file)
        stem == SessionPrefix \o args.session
        listing == {IF l.raised THEN RunRaised ELSE Ran(l.value, {}) :
                       l \in list_all_sessions(arch, file)}
    IN  IF args.list THEN listing
        ELSE IF args.current
        THEN IF file.kind = "missing" THEN {Ran({}, {})}
             ELSE {analyze_file(file, args)}
        ELSE IF args.session # <<>>
        THEN IF stem \notin DOMAIN arch THEN {Ran({}, {})}
             ELSE {analyze_file(arch[stem], args)}
        ELSE IF args.all
        THEN IF \E fp \in glob_sessions(dir) :
                    ReadOutcome(dir[fp]) # "ok" \/ ~IsDict(dir[fp].value)
             THEN {RunRaised}
             ELSE {Ran({analyze_session(dir[fp].value, ~args.quiet) :
                           fp \in glob_sessions(dir)}, {})}
        ELSE IF file.kind # "missing"
        THEN {analyze_file(file, [args EXCEPT !.export = FALSE])}
        ELSE listing

\* needle in haystack, for strs.
IsSubstring(needle, haystack) ==
    \E i \in 0..(Len(haystack) - Len(needle)) :
        SubSeq(haystack, i + 1, i + Len(needle)) = needle

\* Mutant of load_session_by_id: the search by substring alone.
load_session_by_id_search_only(session_id, arch) ==
    LET candidates == {fp \in DOMAIN arch : IsSubstring(session_id, fp)}
        loadable == {fp \in candidates : ReadOutcome(arch[fp]) \notin CaughtOnLoad}
    IN  IF loadable = {} THEN {Returned(None)}
        ELSE {read_json_or_none(arch[fp]) : fp \in loadable}

\* The results load_session_by_id can give: the direct match if the file
\* exists; otherwise the first file of the directory listing, in whatever
\* order it comes, whose stem contains the id and that loads.
load_session_by_id(session_id, arch) ==
    LET stem == SessionPrefix \o session_id
        candidates == {fp \in DOMAIN arch : IsSubstring(session_id, fp)}
        loadable == {fp \in candidates : ReadOutcome(arch[fp]) \notin CaughtOnLoad}
    IN  IF stem \in DOMAIN arch THEN {read_json_or_none(arch[stem])}
        ELSE IF loadable = {} THEN {Returned(None)}
        ELSE {read_json_or_none(arch[fp]) : fp \in loadable}

NotLoaded(file) == Outputs(None, 0, None, <<>>, file)

\* The handler's outputs when load_session_by_id gave `loaded`.  When it
\* gave None the handler lists the archived sessions for its message.
load_session_handler(session_id, loaded, arch, file, now) ==
    IF session_id = <<>> THEN NotLoaded(file)
    ELSE IF loaded.raised THEN HandlerRaised(file)
    ELSE IF IsNone(loaded.value)
    THEN IF \E listed \in list_archived_sessions(arch, file) : listed.raised
         THEN HandlerRaised(file)
         ELSE NotLoaded(file)
    ELSE IF ~IsDict(loaded.value) THEN HandlerRaised(file)   \* no .get
    ELSE LET dataset_name == Get(loaded.value, "dataset", DATASET_3_NAME)
             split_subset == Get(loaded.value, "split_subset", "train")
             split == Split(dataset_name, split_subset)
             sv == save_current_session(
                       SetItem(loaded.value, "total_questions", RowCount(split)), now)
             idx == Get(loaded.value, "current_row", 0)
         IN  display_row_data(split, idx, sv.session, sv.file)

(***************************************************************************)
(* The viewer as a state machine: one action per event handler.            *)
(***************************************************************************)
Directions == {1, -1}
RowNums == 0..(Max(RowsRotation, RowsTrain) + 1)
SessionIds == {strftime_id(t) : t \in 0..MaxClock} \cup {<<"9">>}

Init ==
    /\ clock = 0
    /\ live_file = Missing
    /\ archive = EmptyDict
    /\ current_session = None
    /\ current_split = None
    /\ current_row_idx = 0
    /\ correct_answer_state = <<>>
    /\ last = [op |-> "init"]

\* Every event happens at a later time than the one before it: each handler
\* reads the clock once and leaves it one tick later.
Advance == clock < MaxClock /\ clock' = clock + 1

\* Time passes between two events.
Tick ==
    /\ Advance
    /\ last' = [op |-> "tick"]
    /\ UNCHANGED <<live_file, archive, current_session, current_split,
                   current_row_idx, correct_answer_state>>

\* A handler with the outputs current_split, current_row_idx,
\* current_session and correct_answer_state: a handler that raised sets none.
ApplyOutputs(out) ==
    /\ live_file' = out.file
    /\ IF out.raised
       THEN UNCHANGED <<current_split, current_row_idx, current_session,
                        correct_answer_state>>
       ELSE /\ current_split' = out.split
            /\ current_row_idx' = out.row_idx
            /\ current_session' = out.session
            /\ correct_answer_state' = out.correct_answer

SetOutputs(op, out) ==
    /\ ApplyOutputs(out)
    /\ last' = [op |-> op, raised |-> out.raised]

LoadAndDisplay ==
    /\ Advance
    /\ \E pair \in Pairs, row_num \in RowNums :
           /\ LET out == load_and_display(pair.dataset, pair.split_subset, row_num,
                                          current_session, live_file, clock)
              IN  /\ ApplyOutputs(out)
                  /\ last' = [op |-> "load_and_display", raised |-> out.raised,
                              pair |-> pair,
                              branch |-> branch_of(current_session, live_file, pair),
                              held |-> ~IsNone(current_session)]
           /\ UNCHANGED archive

CheckAnswerAndSave ==
    /\ Advance
    /\ \E selected_choice \in ButtonTexts :
           LET r == check_answer_and_save(selected_choice, correct_answer_state,
                        current_split, current_row_idx, current_session,
                        live_file, clock)
           IN  /\ current_session' = r.session
               /\ live_file' = r.file
               /\ last' = [op |-> "check_answer_and_save", wrote |-> r.wrote,
                           was_answered |-> ~IsNone(current_session)
                               /\ was_answered_of(current_session, current_row_idx),
                           stored_correct |-> ~IsNone(current_session)
                               /\ previous_correct_of(current_session, current_row_idx)]
               /\ UNCHANGED <<archive, current_split, current_row_idx,
                              correct_answer_state>>

NavigateToNext ==
    /\ Advance
    /\ \E direction \in Directions :
           /\ SetOutputs("navigate_to_next",
                         navigate_to_next(current_split, current_row_idx, direction,
                                          current_session, live_file, clock))
           /\ UNCHANGED archive

GotoRow ==
    /\ Advance
    /\ \E row_num \in RowNums :
           /\ SetOutputs("goto_row",
                         goto_row(current_split, row_num, current_session,
                                  live_file, clock))
           /\ UNCHANGED archive

NavigateToAnswered ==
    /\ Advance
    /\ \E direction \in Directions :
           /\ SetOutputs("navigate_to_answered",
                         navigate_to_answered(current_split, current_row_idx,
                             direction, current_session, live_file, clock))
           /\ UNCHANGED archive

ToggleBookmarkHandler ==
    /\ Advance
    /\ LET r == toggle_bookmark_handler(current_session, current_row_idx,
                                        live_file, clock)
       IN  /\ current_session' = r.session
           /\ live_file' = r.file
           /\ last' = [op |-> "toggle_bookmark_handler", row_idx |-> current_row_idx,
                       was_bookmarked |-> ~IsNone(current_session)
                           /\ is_row_bookmarked(current_session, current_row_idx)]
           /\ UNCHANGED <<archive, current_split, current_row_idx,
                          correct_answer_state>>

StartNewSession ==
    /\ Advance
    /\ \E pair \in Pairs :
           LET r == start_new_session(pair.dataset, pair.split_subset,
                        current_session, live_file, archive, clock)
           IN  /\ current_session' = r.session
               /\ live_file' = r.file
               /\ archive' = r.archive
               /\ last' = [op |-> "start_new_session"]
               /\ UNCHANGED <<current_split, current_row_idx,
                              correct_answer_state>>

FinishQuiz ==
    /\ Advance
    /\ LET r == finish_quiz(current_session, archive, clock)
       IN  /\ current_session' = r.session
           /\ archive' = r.archive
           /\ last' = [op |-> "finish_quiz",
                       archived_before |-> ~IsNone(current_session)
                           /\ (SessionPrefix \o current_session.id) \in DOMAIN archive]
           /\ UNCHANGED <<live_file, current_split, current_row_idx,
                          correct_answer_state>>

LoadSessionHandler ==
    /\ Advance
    /\ \E session_id \in SessionIds :
           \E loaded \in load_session_by_id(session_id, archive) :
               /\ SetOutputs("load_session_handler",
                             load_session_handler(session_id, loaded, archive, live_file, clock))
           /\ UNCHANGED archive

Next ==
    \/ Tick
    \/ LoadAndDisplay
    \/ CheckAnswerAndSave
    \/ NavigateToNext
    \/ GotoRow
    \/ NavigateToAnswered
    \/ ToggleBookmarkHandler
    \/ StartNewSession
    \/ FinishQuiz
    \/ LoadSessionHandler

Spec == Init /\ [][Next]_vars

(***************************************************************************)
(* SpecApi: session_manager.py used as a library.  A caller holds a        *)
(* session from create_empty_session and calls the recorder, the bookmark  *)
(* manager and the store with any arguments, MaxCalls times.               *)
(***************************************************************************)
ApiRows == 0..(RowsTrain - 1)
ApiSplit == Split(DATASET_3_NAME, "train")

InitApi ==
    /\ clock = MaxClock - MaxCalls
    /\ live_file = Missing
    /\ archive = EmptyDict
    /\ current_session = create_empty_session(ApiSplit.dataset, ApiSplit.split_subset, clock)
    /\ current_split = None
    /\ current_row_idx = 0
    /\ correct_answer_state = <<>>
    /\ last = [op |-> "init"]

ApiFrame == UNCHANGED <<archive, current_split, current_row_idx, correct_answer_state>>

\* What the session holds for a row before a call.
HasRecord(session, row_idx) == was_answered_of(session, row_idx)
StoredCorrect(session, row_idx) == previous_correct_of(session, row_idx)

ApiRecordAnswer ==
    /\ Advance
    /\ \E row_idx \in ApiRows, user_answer \in Letters :
           LET is_correct == (user_answer = RowAnswer(ApiSplit, row_idx))
               r == record_answer(current_session, row_idx,
                        RowQuestion(ApiSplit, row_idx), user_answer,
                        RowAnswer(ApiSplit, row_idx), is_correct,
                        RowQueryObject(ApiSplit, row_idx), clock)
           IN  /\ current_session' = r.session
               /\ live_file' = IF r.saved THEN r.file ELSE live_file
               /\ last' = [op |-> "record_answer", row_idx |-> row_idx,
                           is_correct |-> is_correct, saved |-> r.saved,
                           had_record |-> HasRecord(current_session, row_idx)]
               /\ ApiFrame

ApiRecordAnswerAllowChange ==
    /\ Advance
    /\ \E row_idx \in ApiRows, user_answer \in Letters,
          was_answered \in BOOLEAN, previous_correct \in BOOLEAN :
           LET is_correct == (user_answer = RowAnswer(ApiSplit, row_idx))
               r == record_answer_allow_change(current_session, row_idx,
                        RowQuestion(ApiSplit, row_idx), user_answer,
                        RowAnswer(ApiSplit, row_idx), is_correct,
                        RowQueryObject(ApiSplit, row_idx),
                        was_answered, previous_correct, clock)
           IN  /\ current_session' = r.session
               /\ live_file' = r.file
               /\ last' = [op |-> "record_answer_allow_change", row_idx |-> row_idx,
                           is_correct |-> is_correct,
                           was_answered |-> was_answered,
                           previous_correct |-> previous_correct,
                           had_record |-> HasRecord(current_session, row_idx),
                           stored_correct |-> StoredCorrect(current_session, row_idx)]
               /\ ApiFrame

ApiToggleBookmark ==
    /\ Advance
    /\ \E row_idx \in ApiRows :
           LET r == toggle_bookmark(current_session, row_idx, clock)
           IN  /\ current_session' = r.session
               /\ live_file' = r.file
               /\ last' = [op |-> "toggle_bookmark", row_idx |-> row_idx,
                           was_bookmarked |-> is_row_bookmarked(current_session, row_idx)]
               /\ ApiFrame

ApiSave ==
    /\ Advance
    /\ LET r == save_current_session(current_session, clock)
       IN  /\ current_session' = r.session
           /\ live_file' = r.file
           /\ last' = [op |-> "save_current_session"]
           /\ ApiFrame

\* The caller drops its session and reads the live one back.
ApiReload ==
    /\ Advance
    /\ LET r == load_current_session(live_file)
       IN  /\ ~r.raised
           /\ ~IsNone(r.value)
           /\ current_session' = r.value
           /\ last' = [op |-> "load_current_session"]
           /\ UNCHANGED live_file
           /\ ApiFrame

NextApi ==
    \/ ApiRecordAnswer
    \/ ApiRecordAnswerAllowChange
    \/ ApiToggleBookmark
    \/ ApiSave
    \/ ApiReload

SpecApi == InitApi /\ [][NextApi]_vars

(***************************************************************************)
(* SpecNav: the navigator functions applied to a session with any set of   *)
(* answered rows, from any current index, in either direction.             *)
(***************************************************************************)
NavRows == (0..MaxNavTotal) \cup {10, 11}
NavCurrents == 0..12

\* A session whose answered rows are A.
NavSession(A) ==
    LET empty == create_empty_session(ApiSplit.dataset, ApiSplit.split_subset, 0)
        answers == [k \in {str(r) : r \in A} |->
                       AnswerRecord(RowQuestion(ApiSplit, int(k)), <<"A">>,
                                    RowAnswer(ApiSplit, int(k)),
                                    <<"A">> = RowAnswer(ApiSplit, int(k)),
                                    RowQueryObject(ApiSplit, int(k)), 0)]
        correct == Cardinality({k \in DOMAIN answers : answers[k].is_correct})
    IN  [empty EXCEPT !.answers = answers,
                      !.answered_count = Cardinality(A),
                      !.correct_count = correct,
                      !.incorrect_count = Cardinality(A) - correct]

InitNav ==
    /\ clock = 0
    /\ live_file = Missing
    /\ archive = EmptyDict
    /\ current_session \in {NavSession(A) : A \in SUBSET NavRows}
    /\ current_split = None
    /\ current_row_idx = 0
    /\ correct_answer_state = <<>>
    /\ last = [op |-> "init"]

NavFrame ==
    UNCHANGED <<clock, live_file, archive, current_split,
                current_row_idx, correct_answer_state>>

\* The function is called, and called again with the same arguments.
NavUnanswered ==
    \E total_rows \in 1..MaxNavTotal, direction \in Directions :
        \E current_idx \in 0..(total_rows - 1) :
            LET r == call_get_next_unanswered_row(current_session, current_idx,
                         total_rows, direction)
                again == call_get_next_unanswered_row(r.session, current_idx,
                             total_rows, direction)
            IN  /\ last' = [op |-> "get_next_unanswered_row",
                            current_idx |-> current_idx, total_rows |-> total_rows,
                            direction |-> direction,
                            result |-> r.result, again |-> again.result]
                /\ current_session' = again.session
                /\ NavFrame

NavAnswered ==
    \E current_idx \in NavCurrents, direction \in Directions :
        LET r == call_get_next_answered_row(current_session, current_idx, direction)
            again == call_get_next_answered_row(r.session, current_idx, direction)
        IN  /\ last' = [op |-> "get_next_answered_row",
                        current_idx |-> current_idx, direction |-> direction,
                        result |-> r.result, again |-> again.result]
            /\ current_session' = again.session
            /\ NavFrame

\* The rows that `steps` presses of a jump-to-answered button show, each
\* press made from the row the press before returned (navigate_to_answered
\* passes current_row_idx, which the press before set).
RECURSIVE review_jumps(_, _, _, _)
review_jumps(session, current_idx, direction, steps) ==
    IF steps = 0 THEN <<>>
    ELSE LET found == get_next_answered_row(session, current_idx, direction)
         IN  <<found.some>> \o review_jumps(session, found.some, direction, steps - 1)

\* As many jumps as there are answered rows, and a jump forward and back.
NavReview ==
    /\ get_answered_rows(current_session) # <<>>
    /\ \E current_idx \in NavCurrents, direction \in Directions :
           LET there == get_next_answered_row(current_session, current_idx, 1)
               back == get_next_answered_row(current_session, current_idx, -1)
           IN  last' = [op |-> "review", current_idx |-> current_idx,
                        direction |-> direction,
                        visited |-> review_jumps(current_session, current_idx, direction,
                                        Len(get_answered_rows(current_session))),
                        forward_back |-> get_next_answered_row(current_session,
                                             there.some, -1),
                        back_forward |-> get_next_answered_row(current_session,
                                             back.some, 1)]
    /\ UNCHANGED current_session
    /\ NavFrame

NextNav ==
    \/ NavUnanswered
    \/ NavAnswered
    \/ NavReview

SpecNav == InitNav /\ [][NextNav]_vars

(***************************************************************************)
(* SpecStore: the viewer started on a sessions directory whose live file   *)
(* is whatever an earlier run, a crash or another program left there.      *)
(***************************************************************************)
StoreDepth == 2

\* Sessions an earlier run saved.
StoredSessions ==
    LET fresh(p) == SetItem(create_empty_session(p.dataset, p.split_subset, 0),
                            "total_questions", RowCount(p))
        used(p) == toggle_bookmark(
                       record_answer_allow_change(fresh(p), 0, RowQuestion(p, 0),
                           <<"A">>, RowAnswer(p, 0), TRUE, RowQueryObject(p, 0),
                           FALSE, FALSE, 0).session,
                       0, 0).session
    IN  {fresh(p) : p \in Pairs} \cup {used(p) : p \in Pairs}

StoreFiles ==
    {Missing, MalformedFile, UndecodableFile, UnreadableFile,
     JsonFile(JsonList), JsonFile(EmptyDict)}
    \cup {JsonFile(json_dump(session)) : session \in StoredSessions}

InitStore ==
    /\ clock = MaxClock - StoreDepth
    /\ live_file \in StoreFiles
    /\ archive = EmptyDict
    /\ current_session = None
    /\ current_split = None
    /\ current_row_idx = 0
    /\ correct_answer_state = <<>>
    /\ last = [op |-> "init"]

\* A caller reads the live session (as analyze_session.py --current does).
LoadCurrentSession ==
    /\ Advance
    /\ LET r == load_current_session(live_file)
       IN  /\ last' = [op |-> "load_current_session", raised |-> r.raised,
                       value |-> IF r.raised THEN None ELSE r.value]
           /\ UNCHANGED <<live_file, archive, current_session, current_split,
                          current_row_idx, correct_answer_state>>

NextStore ==
    \/ LoadCurrentSession
    \/ Next

SpecStore == InitStore /\ [][NextStore]_vars

(***************************************************************************)
(* SpecDir: the lookups of session_manager.py on a sessions directory that *)
(* earlier runs, a crash or another program left: archived attempts, some  *)
(* with an id that is part of another's, and files that are not sessions.  *)
(***************************************************************************)
\* The attempt started at time t, archived with one answer and one bookmark:
\* [session, stem, file] as archive_session gives them.
AttemptAt(t) ==
    LET s0 == SetItem(create_empty_session(ApiSplit.dataset, ApiSplit.split_subset, t),
                      "total_questions", RowCount(ApiSplit))
        s1 == record_answer_allow_change(s0, 0, RowQuestion(ApiSplit, 0), <<"A">>,
                  RowAnswer(ApiSplit, 0), TRUE, RowQueryObject(ApiSplit, 0),
                  FALSE, FALSE, t + 1).session
        s2 == toggle_bookmark(s1, 0, t + 1).session
    IN  archive_session(s2, t + 2)

\* Start times whose ids are "1", "2" and "12".
AttemptTimes == {1 * TicksPerSecond, 2 * TicksPerSecond, 12 * TicksPerSecond}

IntactArchive(times) ==
    [stem \in {AttemptAt(t).stem : t \in times} |->
        (CHOOSE a \in {AttemptAt(t) : t \in times} : a.stem = stem).file]

WithFile(arch, stem, file) ==
    IF file.kind = "missing" THEN arch ELSE SetItem(arch, stem, file)

StoredArchives ==
    {WithFile(WithFile(IntactArchive(times), SessionPrefix \o <<"3">>, f3),
              SessionPrefix \o <<"4">>, f4) :
        times \in SUBSET AttemptTimes,
        f3 \in {Missing, MalformedFile, UndecodableFile},
        f4 \in {Missing, JsonFile(JsonList)}}

\* What a user types in the "load session" box.
LookupQueries ==
    {<<"1">>, <<"1", "2">>, <<"2">>, <<"3">>, <<"4">>, <<"9">>, <<"s">>}

InitDir ==
    /\ clock = 0
    /\ live_file \in {Missing} \cup {JsonFile(json_dump(s)) : s \in StoredSessions}
    /\ archive \in StoredArchives
    /\ current_session = None
    /\ current_split = None
    /\ current_row_idx = 0
    /\ correct_answer_state = <<>>
    /\ last = [op |-> "init"]

LoadSessionById ==
    \E session_id \in LookupQueries :
        \E r \in load_session_by_id(session_id, archive) :
            /\ last' = [op |-> "load_session_by_id", session_id |-> session_id,
                        raised |-> r.raised,
                        value |-> IF r.raised THEN None ELSE r.value]
            /\ UNCHANGED current_session
            /\ NavFrame

ListArchivedSessions ==
    \E r \in list_archived_sessions(archive, live_file) :
        /\ last' = [op |-> "list_archived_sessions", raised |-> r.raised,
                    value |-> IF r.raised THEN <<>> ELSE r.value]
        /\ UNCHANGED current_session
        /\ NavFrame

NextDir ==
    \/ LoadSessionById
    \/ ListArchivedSessions

SpecDir == InitDir /\ [][NextDir]_vars

(***************************************************************************)
(* SpecCrash: the library of SpecApi in a process that may stop at any     *)
(* point of save_current_session, and be started again.                    *)
(***************************************************************************)
\* Where the process stops in
\*     session["updated_at"] = datetime.now().isoformat()
\*     with open(CURRENT_SESSION_FILE, "w") as f:
\*         json.dump(session, f, indent=2)
CrashPoints == {"before_open", "after_open", "during_dump", "after_close"}

\* The live file a process leaves when it stops at a point of
\* save_current_session(session): open(path, "w") empties the file, and
\* json.dump writes the text into it piece by piece.  An empty file and a
\* part of the text are both text that is not JSON.
interrupted_save(session, now, file, point) ==
    CASE point = "before_open" -> file
      [] point = "after_open" -> MalformedFile
      [] point = "during_dump" -> MalformedFile
      [] point = "after_close" -> save_current_session(session, now).file

\* A process holds a session.
Running == ~IsNone(current_session)

\* The process stops during save_current_session: what it held is gone.
SaveInterrupted ==
    /\ Advance
    /\ Running
    /\ \E point \in CrashPoints :
           /\ live_file' = interrupted_save(current_session, clock, live_file, point)
           /\ last' = [op |-> "save_interrupted", point |-> point,
                       previous |-> live_file,
                       new |-> save_current_session(current_session, clock).file]
    /\ current_session' = None
    /\ ApiFrame

\* A new process reads the live session.
Restart ==
    /\ Advance
    /\ ~Running
    /\ LET r == load_current_session(live_file)
       IN  /\ ~r.raised
           /\ current_session' = r.value
           /\ last' = [op |-> "restart", value |-> r.value]
    /\ UNCHANGED live_file
    /\ ApiFrame

NextCrash ==
    \/ Running /\ NextApi
    \/ SaveInterrupted
    \/ Restart

SpecCrash == InitApi /\ [][NextCrash]_vars

(***************************************************************************)
(* SpecLegacy: record_answer_allow_change, called as the viewer calls it,  *)
(* on a session that an earlier version of the program saved: it lacks     *)
(* some of answers, answered_count, correct_count and incorrect_count, and *)
(* the counts it has agree with the answers it has.                        *)
(***************************************************************************)
LegacyDepth == 2

LegacyFields == {"answers", "answered_count", "correct_count", "incorrect_count"}

\* The session without some of its fields.
Without(session, fields) == [f \in (DOMAIN session) \ fields |-> session[f]]

LegacySessions ==
    {Without(NavSession(A), fields) :
        A \in SUBSET ApiRows, fields \in SUBSET (LegacyFields \ {"answers"})}
    \cup {Without(NavSession({}), fields) : fields \in SUBSET LegacyFields}

InitLegacy ==
    /\ clock = MaxClock - LegacyDepth
    /\ live_file = Missing
    /\ archive = EmptyDict
    /\ current_session \in LegacySessions
    /\ LegacyFields \ DOMAIN current_session # {}
    /\ current_split = None
    /\ current_row_idx = 0
    /\ correct_answer_state = <<>>
    /\ last = [op |-> "init"]

\* was_answered and previous_correct are read from the session, as in
\* check_answer_and_save.
LegacyRecordAnswerAllowChange ==
    /\ Advance
    /\ \E row_idx \in ApiRows, user_answer \in Letters :
           LET is_correct == (user_answer = RowAnswer(ApiSplit, row_idx))
               was_answered == was_answered_of(current_session, row_idx)
               previous_correct == previous_correct_of(current_session, row_idx)
               r == record_answer_allow_change(current_session, row_idx,
                        RowQuestion(ApiSplit, row_idx), user_answer,
                        RowAnswer(ApiSplit, row_idx), is_correct,
                        RowQueryObject(ApiSplit, row_idx),
                        was_answered, previous_correct, clock)
           IN  /\ current_session' = r.session
               /\ live_file' = r.file
               /\ last' = [op |-> "record_answer_allow_change", row_idx |-> row_idx,
                           is_correct |-> is_correct,
                           was_answered |-> was_answered,
                           previous_correct |-> previous_correct,
                           lacked |-> LegacyFields \ DOMAIN current_session,
                           records |-> Cardinality(DOMAIN Get(current_session,
                                                         "answers", EmptyDict))]
               /\ ApiFrame

NextLegacy == LegacyRecordAnswerAllowChange

SpecLegacy == InitLegacy /\ [][NextLegacy]_vars

(***************************************************************************)
(* SpecRestore: the viewer started on the sessions directory of an earlier *)
(* run that answered a row, pressed "finish" and answered another row: the *)
(* archive holds the session as "finish" left it and the live file holds   *)
(* the session as it went on.                                              *)
(***************************************************************************)
RestoreDepth == 2

\* The earlier run on a dataset/split pair: the archive after "finish" and
\* the live file after the second answer.
EarlierRun(p) ==
    LET s0 == SetItem(create_empty_session(p.dataset, p.split_subset, 0),
                      "total_questions", RowCount(p))
        s1 == record_answer_allow_change(s0, 0, RowQuestion(p, 0), <<"A">>,
                  RowAnswer(p, 0), <<"A">> = strip(RowAnswer(p, 0)),
                  RowQueryObject(p, 0), FALSE, FALSE, 0)
        fq == finish_quiz(s1.session, EmptyDict, 1)
        s2 == record_answer_allow_change(fq.session, 1, RowQuestion(p, 1), <<"A">>,
                  RowAnswer(p, 1), <<"A">> = strip(RowAnswer(p, 1)),
                  RowQueryObject(p, 1), FALSE, FALSE, 1)
    IN  [archive |-> fq.archive, file |-> s2.file]

InitRestore ==
    /\ clock = MaxClock - RestoreDepth
    /\ \E p \in Pairs :
           /\ live_file = EarlierRun(p).file
           /\ archive = EarlierRun(p).archive
    /\ current_session = None
    /\ current_split = None
    /\ current_row_idx = 0
    /\ correct_answer_state = <<>>
    /\ last = [op |-> "init"]

SpecRestore == InitRestore /\ [][Next]_vars

(***************************************************************************)
(* SpecSkip: an evaluator who, on a split that is displayed, presses       *)
(* "next" and answers the row shown, again and again.                      *)
(***************************************************************************)
\* A session bound to the pair p whose answered rows are A.
SkipSession(p, A) ==
    LET empty == create_empty_session(p.dataset, p.split_subset, 0)
        answers == [k \in {str(r) : r \in A} |->
                       AnswerRecord(RowQuestion(p, int(k)), <<"A">>,
                                    RowAnswer(p, int(k)),
                                    <<"A">> = strip(RowAnswer(p, int(k))),
                                    RowQueryObject(p, int(k)), 0)]
        correct == Cardinality({k \in DOMAIN answers : answers[k].is_correct})
    IN  [empty EXCEPT !.total_questions = RowCount(p),
                      !.answers = answers,
                      !.answered_count = Cardinality(A),
                      !.correct_count = correct,
                      !.incorrect_count = Cardinality(A) - correct]

InitSkip ==
    /\ clock = 0
    /\ archive = EmptyDict
    /\ \E p \in Pairs :
           \E A \in SUBSET (0..(RowCount(p) - 1)), c \in 0..(RowCount(p) - 1) :
               LET sv == save_current_session(
                             SetItem(SkipSession(p, A), "current_row", c), 0)
               IN  /\ current_split = p
                   /\ current_row_idx = c
                   /\ current_session = sv.session
                   /\ live_file = sv.file
                   /\ correct_answer_state = RowAnswer(p, c)
    /\ last = [op |-> "init", raised |-> FALSE, newly |-> 0, rounds |-> 0]

\* The clock is read at each event, up to the last time the model keeps.
SkipAdvance == clock' = IF clock < MaxClock THEN clock + 1 ELSE clock

\* next_btn.click: navigate_to_next(split, current_row_idx, 1, dtype, session)
PressNext ==
    /\ last.op # "navigate_to_next"
    /\ SkipAdvance
    /\ LET out == navigate_to_next(current_split, current_row_idx, 1,
                      current_session, live_file, clock)
       IN  /\ ApplyOutputs(out)
           /\ last' = [op |-> "navigate_to_next", raised |-> out.raised,
                       newly |-> last.newly, rounds |-> last.rounds,
                       pressed_at |-> current_row_idx,
                       open |-> Cardinality(
                                    {r \in 0..(RowCount(current_split) - 1) :
                                        ~is_row_answered(current_session, r)})]
    /\ UNCHANGED archive

\* The evaluator answers the row that "next" has shown.
AnswerShown ==
    /\ last.op = "navigate_to_next"
    /\ SkipAdvance
    /\ \E selected_choice \in ButtonTexts :
           LET r == check_answer_and_save(selected_choice, correct_answer_state,
                        current_split, current_row_idx, current_session,
                        live_file, clock)
           IN  /\ current_session' = r.session
               /\ live_file' = r.file
               /\ last' = [op |-> "check_answer_and_save", raised |-> FALSE,
                           newly |-> IF was_answered_of(current_session, current_row_idx)
                                     THEN last.newly ELSE last.newly + 1,
                           rounds |-> Min(last.rounds + 1, RowsRotation + 1),
                           open |-> last.open]
    /\ UNCHANGED <<archive, current_split, current_row_idx, correct_answer_state>>

NextSkip ==
    \/ PressNext
    \/ AnswerShown

\* The evaluator goes on: a press that is possible is made, and so is an answer.
SpecSkip ==
    InitSkip /\ [][NextSkip]_vars /\ WF_vars(PressNext) /\ WF_vars(AnswerShown)

(***************************************************************************)
(* SpecReport: the reporting tool run with any options on a sessions       *)
(* directory, and the read-only functions applied to any stored session.   *)
(***************************************************************************)
\* Sessions of every shape the functions read: new, in use, with answered
\* rows whose keys sort differently as strs and as numbers, and a session
\* that predates every field.
ReportSessions ==
    StoredSessions \cup {NavSession(A) : A \in SUBSET {0, 2, 10}} \cup {EmptyDict}

ReportFiles ==
    {Missing, MalformedFile, JsonFile(JsonList)}
    \cup {JsonFile(json_dump(session)) : session \in StoredSessions}

ReportArchives ==
    {WithFile(IntactArchive(times), SessionPrefix \o <<"3">>, f3) :
        times \in SUBSET {1 * TicksPerSecond, 2 * TicksPerSecond},
        f3 \in {Missing, MalformedFile}}

ArgSets ==
    {Args(list, current, session, export, all, quiet) :
        list \in BOOLEAN, current \in BOOLEAN,
        session \in {<<>>, <<"1">>, <<"3">>, <<"9">>},
        export \in BOOLEAN, all \in BOOLEAN, quiet \in BOOLEAN}

InitReport ==
    /\ clock = MaxClock - 1
    /\ live_file \in ReportFiles
    /\ archive \in ReportArchives
    /\ current_session \in ReportSessions
    /\ current_split = None
    /\ current_row_idx = 0
    /\ correct_answer_state = <<>>
    /\ last = [op |-> "init"]

\* Every run and every call is one event.
ReportFrame ==
    /\ Advance
    /\ UNCHANGED <<current_session, current_split, current_row_idx,
                   correct_answer_state>>

\* The stored sessions after the files of `written` (at most one) are written.
StoreAfter(arch, file, written) ==
    IF written = {} THEN [archive |-> arch, file |-> file]
    ELSE StoreAfterWrite(arch, file, CHOOSE w \in written : TRUE)

\* python analyze_session.py with the options args.
Main ==
    /\ clock < MaxClock
    /\ \E args \in ArgSets :
           \E run \in main(args, archive, live_file) :
               /\ ReportFrame
               /\ live_file' = StoreAfter(archive, live_file, run.written).file
               /\ archive' = StoreAfter(archive, live_file, run.written).archive
               /\ last' = [op |-> "main", args |-> args, raised |-> run.raised,
                           written |-> run.written]

\* export_session_csv(session) on a session a caller holds.
ExportSessionCsv ==
    LET written == export_session_csv(current_session)
    IN  /\ ReportFrame
        /\ live_file' = StoreAfterWrite(archive, live_file, written).file
        /\ archive' = StoreAfterWrite(archive, live_file, written).archive
        /\ last' = [op |-> "export_session_csv", rows |-> written.rows]

\* get_session_stats(session) on a session a caller holds.
GetSessionStats ==
    /\ ReportFrame
    /\ last' = [op |-> "get_session_stats",
                result |-> get_session_stats(current_session)]
    /\ UNCHANGED <<live_file, archive>>

NextReport ==
    \/ Main
    \/ ExportSessionCsv
    \/ GetSessionStats

SpecReport == InitReport /\ [][NextReport]_vars

(***************************************************************************)
(* The claims.                                                             *)
(***************************************************************************)
Counts(session) ==
    <<session.answered_count, session.correct_count, session.incorrect_count>>

CountsConsistent(session) ==
    /\ session.answered_count = session.correct_count + session.incorrect_count
    /\ session.answered_count = Cardinality(DOMAIN session.answers)

AnsweredRows(session) == {int(k) : k \in DOMAIN session.answers}

\* C1: in the viewer, whatever the order of answers, changed answers,
\* bookmark toggles and navigation, the session's answered_count equals
\* correct_count + incorrect_count and the number of entries of answers.
C1_CountsMatchAnswers ==
    ~IsNone(current_session) => CountsConsistent(current_session)

\* A row's answer has just been changed in a session with two answered rows.
C1_Witness ==
    /\ last.op = "check_answer_and_save"
    /\ last.wrote
    /\ last.was_answered
    /\ current_session.answered_count = 2

\* C2: after every call of record_answer_allow_change on a row that already
\* has a record, whatever was_answered and previous_correct are passed,
\* answered_count equals correct_count + incorrect_count.
C2_RecorderAccountsForPrevious ==
    (last.op = "record_answer_allow_change" /\ last.had_record)
        => CountsConsistent(current_session)

\* C3: record_answer on a row that already has a record changes neither the
\* session (the record, the three counts) nor the live-session file, and
\* returns the session it was given.
C3_RecordOnceIdempotent ==
    [][(last'.op = "record_answer" /\ last'.had_record)
          => /\ current_session' = current_session
             /\ live_file' = live_file
             /\ ~last'.saved]_vars

\* record_answer has been called on an answered row with the other answer.
C3_Witness ==
    /\ last.op = "record_answer"
    /\ last.had_record
    /\ last.is_correct # current_session.answers[str(last.row_idx)].is_correct

\* C4: when the viewer re-records an answered row, answered_count is
\* unchanged; with the opposite correctness one unit moves from the old
\* bucket to the new one, with the same correctness no count changes.  So
\* after row 0 correct and row 1 incorrect, changing row 1 to correct gives
\* answered_count = 2, correct_count = 2, incorrect_count = 0.
C4_CountCorrection ==
    [][(last'.op = "check_answer_and_save" /\ last'.wrote /\ last'.was_answered)
          => LET old == current_session
                 new == current_session'
                 key == str(current_row_idx)
                 was == old.answers[key].is_correct
                 now == new.answers[key].is_correct
             IN  /\ new.answered_count = old.answered_count
                 /\ (was = now) => Counts(new) = Counts(old)
                 /\ (~was /\ now) =>
                        /\ new.correct_count = old.correct_count + 1
                        /\ new.incorrect_count = old.incorrect_count - 1
                 /\ (was /\ ~now) =>
                        /\ new.correct_count = old.correct_count - 1
                        /\ new.incorrect_count = old.incorrect_count + 1
                 /\ (/\ AnsweredRows(old) = {0, 1}
                     /\ old.answers[str(0)].is_correct
                     /\ key = str(1) /\ ~was /\ now)
                        => Counts(new) = <<2, 2, 0>>]_vars

\* Row 0 is answered correctly and row 1, answered incorrectly, has just
\* been changed to correct.
C4_Witness ==
    /\ last.op = "check_answer_and_save"
    /\ last.wrote
    /\ last.was_answered
    /\ ~last.stored_correct
    /\ current_row_idx = 1
    /\ AnsweredRows(current_session) = {0, 1}
    /\ current_session.answers[str(0)].is_correct
    /\ current_session.answers[str(1)].is_correct

AllRows == 0..(Max(RowsRotation, RowsTrain) - 1)

\* C5: for every session the viewer reaches and every row r, toggling the
\* bookmark of r twice gives back the set of bookmarked rows.
C5_ToggleTwiceRestores ==
    ~IsNone(current_session) =>
        \A r \in AllRows :
            Range(toggle_in_list(toggle_in_list(current_session.bookmarks, r), r))
                = Range(current_session.bookmarks)

\* A bookmark has just been toggled off while another row stays bookmarked.
C5_Witness ==
    /\ last.op = "toggle_bookmark_handler"
    /\ last.was_bookmarked
    /\ ~IsNone(current_session)
    /\ Len(current_session.bookmarks) = 1
    /\ last.row_idx \notin Range(current_session.bookmarks)

NoDuplicates(seq) == \A i, j \in 1..Len(seq) : seq[i] = seq[j] => i = j

\* C6: under any sequence of toggle_bookmark calls, saves and reloads, no
\* row occurs twice in bookmarks (in the session held or in the live file),
\* and after toggle_bookmark(S, r) the row r is bookmarked exactly when it
\* was not before.
C6_BookmarksAreASet ==
    /\ NoDuplicates(current_session.bookmarks)
    /\ live_file.kind = "json" => NoDuplicates(live_file.value.bookmarks)
    /\ last.op = "toggle_bookmark" =>
           (is_row_bookmarked(current_session, last.row_idx) <=> ~last.was_bookmarked)

\* A bookmarked row has just been toggled off, another one staying.
C6_Witness ==
    /\ last.op = "toggle_bookmark"
    /\ last.was_bookmarked
    /\ Len(current_session.bookmarks) = 1

\* The k-th index reached from c stepping by d with wraparound.
StepFrom(c, d, k, n) == (c + k * d) % n

\* C7: for total_rows >= 1, get_next_unanswered_row returns the first index
\* reached from current_idx, stepping by direction with wraparound, that has
\* no answer; if every row is answered it returns current_idx.  The result
\* is an answered row only if all rows are answered.
C7_SkipToUnanswered ==
    last.op = "get_next_unanswered_row" =>
        LET c == last.current_idx
            d == last.direction
            n == last.total_rows
            open == {k \in 1..n :
                        StepFrom(c, d, k, n) \notin AnsweredRows(current_session)}
        IN  /\ open = {} => last.result = c
            /\ open # {} =>
                   /\ last.result =
                          StepFrom(c, d, CHOOSE k \in open : \A j \in open : k <= j, n)
                   /\ last.result \notin AnsweredRows(current_session)

\* total = 3, rows {0, 2} answered, current = 0, direction = +1 returned 1.
C7_Witness ==
    /\ last.op = "get_next_unanswered_row"
    /\ last.total_rows = 3
    /\ last.current_idx = 0
    /\ last.direction = 1
    /\ AnsweredRows(current_session) = {0, 2}
    /\ last.result = 1

\* C8: with a non-empty set A of answered rows, get_next_answered_row gives
\* for +1 the smallest element of A above current, or min(A) if none, and
\* for -1 the largest element of A below current, or max(A) if none; the
\* result is a member of A and the order is that of the numbers.
C8_JumpToAnswered ==
    (last.op = "get_next_answered_row" /\ AnsweredRows(current_session) # {}) =>
        LET A == AnsweredRows(current_session)
            c == last.current_idx
            above == {a \in A : a > c}
            below == {a \in A : a < c}
            MinOf(S) == CHOOSE x \in S : \A y \in S : x <= y
            MaxOf(S) == CHOOSE x \in S : \A y \in S : x >= y
            expected == IF last.direction = 1
                        THEN IF above # {} THEN MinOf(above) ELSE MinOf(A)
                        ELSE IF below # {} THEN MaxOf(below) ELSE MaxOf(A)
        IN  /\ last.result = Some(expected)
            /\ last.result.some \in A

\* A = {0, 2, 4}, current = 0, direction = -1 returned 4.
C8_Witness ==
    /\ last.op = "get_next_answered_row"
    /\ AnsweredRows(current_session) = {0, 2, 4}
    /\ last.current_idx = 0
    /\ last.direction = -1
    /\ last.result = Some(4)

\* C9: load_current_session never raises: it returns None when the live
\* file is missing or does not hold a session, and the stored session
\* otherwise; load_and_display then goes on and does not raise either.
C9_LoadNeverRaises ==
    /\ last.op = "load_current_session" =>
           /\ ~last.raised
           /\ live_file.kind = "json" => last.value = live_file.value
           /\ live_file.kind # "json" => IsNone(last.value)
    /\ last.op = "load_and_display" => ~last.raised

\* The calls of the viewer that end with save_current_session(session).
SavingHandlers ==
    {"load_and_display", "navigate_to_next", "navigate_to_answered", "goto_row"}

JustSaved(session, file, now) ==
    /\ file = JsonFile(json_dump(session))
    /\ session.updated_at = isoformat(now)

\* C10: when a state-changing operation returns (an answer recorded, a
\* bookmark toggled, the cursor moved by navigate_to_next,
\* navigate_to_answered, goto_row or load_and_display), the live-session
\* file holds exactly the session in memory, with updated_at the time of
\* that call; so does record_answer whenever it writes.
C10_PersistedImmediately ==
    /\ (\/ /\ last.op \in SavingHandlers
           /\ ~last.raised
           /\ ~IsNone(current_split)
           /\ ~IsNone(current_session)
        \/ last.op = "check_answer_and_save" /\ last.wrote
        \/ last.op = "toggle_bookmark_handler" /\ ~IsNone(current_session))
       => JustSaved(current_session, live_file, clock - 1)
    /\ ~IsNone(current_session) =>
           \A row_idx \in AllRows, user_answer \in Letters :
               LET r == record_answer(current_session, row_idx, <<>>, user_answer,
                                      <<"A">>, user_answer = <<"A">>, <<>>, clock)
               IN  r.saved => JustSaved(r.session, r.file, clock)

\* The cursor has just been moved to row 1 of a session that has an answer
\* and was archived by "finish".
C10_Witness ==
    /\ last.op = "navigate_to_next"
    /\ ~last.raised
    /\ ~IsNone(current_session)
    /\ ~IsNone(current_split)
    /\ current_session.current_row = 1
    /\ DOMAIN current_session.answers # {}
    /\ "archived_at" \in DOMAIN current_session

\* A session as create_empty_session leaves it, whatever it is bound to.
IsFresh(session) ==
    /\ session.answers = EmptyDict
    /\ Counts(session) = <<0, 0, 0>>
    /\ session.bookmarks = <<>>
    /\ session.current_row = 0

\* The archived record named by the session's id holds the session's
\* answers, counts and bookmarks.
ArchivedAs(arch, session) ==
    LET stem == SessionPrefix \o session.id IN
    /\ stem \in DOMAIN arch
    /\ arch[stem].kind = "json"
    /\ arch[stem].value.id = session.id
    /\ arch[stem].value.answers = session.answers
    /\ Counts(arch[stem].value) = Counts(session)
    /\ arch[stem].value.bookmarks = session.bookmarks

\* C11: when "new session" is pressed on a session with at least one answer,
\* the handler leaves an archived record keyed by that session's id that
\* holds its answers, counts and bookmarks, and the live file and the
\* session held are a fresh empty session (no answers, counts 0, no
\* bookmarks, current_row 0).
C11_ArchiveBeforeReplace ==
    [][(/\ last'.op = "start_new_session"
        /\ ~IsNone(current_session)
        /\ DOMAIN current_session.answers # {})
          => /\ ArchivedAs(archive', current_session)
             /\ IsFresh(current_session')
             /\ live_file' = JsonFile(json_dump(current_session'))]_vars

\* "New session" has just archived a session with an answer and a bookmark.
C11_Witness ==
    /\ last.op = "start_new_session"
    /\ IsFresh(current_session)
    /\ \E stem \in DOMAIN archive :
           /\ archive[stem].value.archived_at = clock - 1
           /\ DOMAIN archive[stem].value.answers # {}
           /\ archive[stem].value.bookmarks # <<>>

\* C12: when load_and_display is called for a pair while the interface holds
\* no session, or one bound to another pair, and the live file holds a
\* session bound to the requested pair, the call does not raise and goes on
\* with the persisted session: its id, creation time, answers, counts and
\* bookmarks are those of the file.
C12_Resume ==
    [][(/\ last'.op = "load_and_display"
        /\ ~HeldBoundTo(current_session, last'.pair)
        /\ LiveBoundTo(live_file, last'.pair))
             => /\ ~last'.raised
                /\ current_session'.id = live_file.value.id
                /\ current_session'.created_at = live_file.value.created_at
                /\ current_session'.answers = live_file.value.answers
                /\ Counts(current_session') = Counts(live_file.value)
                /\ current_session'.bookmarks = live_file.value.bookmarks]_vars

\* The viewer, just started, has resumed a stored session that has an
\* answer and a bookmark.
C12_Witness ==
    /\ last.op = "load_and_display"
    /\ ~last.raised
    /\ last.branch = "resumed"
    /\ clock = MaxClock - StoreDepth + 1
    /\ current_session.created_at < clock - 1
    /\ DOMAIN current_session.answers # {}
    /\ current_session.bookmarks # <<>>

\* The live file is missing or holds a session.
LiveIsSessionOrMissing(file) ==
    \/ file.kind = "missing"
    \/ file.kind = "json" /\ IsDict(file.value)

\* C13: a load_and_display for a pair that the existing sessions are not
\* bound to does not raise (the live file being missing or a session), and
\* after every load_and_display that succeeds the session is bound to the
\* requested pair; when neither the session held nor the live session was
\* bound to it, the session has no answers, zero counts and no bookmarks.
C13_MismatchStartsFresh ==
    [][last'.op = "load_and_display"
          => /\ LiveIsSessionOrMissing(live_file) => ~last'.raised
             /\ ~last'.raised =>
                    /\ current_session'.dataset = last'.pair.dataset
                    /\ current_session'.split_subset = last'.pair.split_subset
                    /\ current_split' = last'.pair
                    /\ last'.branch = "created" =>
                           /\ current_session'.answers = EmptyDict
                           /\ Counts(current_session') = <<0, 0, 0>>
                           /\ current_session'.bookmarks = <<>>
                           /\ current_session'.created_at = isoformat(clock)]_vars

\* The interface held a session bound to another pair and load_and_display
\* has created a session for the requested one.
C13_Witness ==
    /\ last.op = "load_and_display"
    /\ ~last.raised
    /\ last.held
    /\ last.branch = "created"
    /\ current_session.dataset = last.pair.dataset
    /\ current_session.answers = EmptyDict

\* Every archive file holds a session whose id is the one in the file's name.
KeyedById(arch) ==
    \A stem \in DOMAIN arch :
        /\ arch[stem].kind = "json"
        /\ stem = SessionPrefix \o arch[stem].value.id

\* C14: every archived record is named by the id of the session it holds,
\* so there is at most one record per id; after "finish" archives a session
\* the record of its id holds the session as it is at that call, and
\* archiving an id that has a record replaces the record and adds none.
C14_ArchiveKeyedByIdOverwrites ==
    [][/\ KeyedById(archive')
       /\ (/\ last'.op = "finish_quiz"
           /\ ~IsNone(current_session)
           /\ current_session.answered_count > 0)
             => LET stem == SessionPrefix \o current_session.id IN
                /\ stem \in DOMAIN archive'
                /\ archive'[stem] = JsonFile(json_dump(current_session'))
                /\ current_session'.archived_at = isoformat(clock)
                /\ archive'[stem].value.answers = current_session.answers
                /\ Counts(archive'[stem].value) = Counts(current_session)
                /\ last'.archived_before => DOMAIN archive' = DOMAIN archive]_vars

\* A session archived before, and saved again since, has just been archived
\* again: there is still one record, holding the later state.
C14_Witness ==
    /\ last.op = "finish_quiz"
    /\ last.archived_before
    /\ current_session.updated_at = clock - 2
    /\ current_session.archived_at = clock - 1
    /\ Cardinality(DOMAIN archive) = 1
    /\ archive[SessionPrefix \o current_session.id].value.updated_at = clock - 2

\* C15: "finish", which archives the session, neither changes nor removes
\* the live-session file and leaves the answers, counts, bookmarks and
\* cursor of the session held unchanged; load_current_session returns after
\* it what it returned before.
C15_ArchiveLeavesLiveSlot ==
    [][last'.op = "finish_quiz"
          => /\ live_file' = live_file
             /\ load_current_session(live_file') = load_current_session(live_file)
             /\ IsNone(current_session) => IsNone(current_session')
             /\ ~IsNone(current_session) =>
                    /\ current_session'.answers = current_session.answers
                    /\ Counts(current_session') = Counts(current_session)
                    /\ current_session'.bookmarks = current_session.bookmarks
                    /\ current_session'.current_row = current_session.current_row]_vars

\* "Finish" has just archived a session with a bookmark; the live file is
\* the session as last saved.
C15_Witness ==
    /\ last.op = "finish_quiz"
    /\ ~IsNone(current_session)
    /\ "archived_at" \in DOMAIN current_session
    /\ current_session.archived_at = clock - 1
    /\ current_session.bookmarks # <<>>
    /\ (SessionPrefix \o current_session.id) \in DOMAIN archive
    /\ live_file.kind = "json"
    /\ "archived_at" \notin DOMAIN live_file.value
    /\ live_file.value.answers = current_session.answers

\* The archive file named by an id holds a session with that id.
IntactRecord(arch, session_id) ==
    LET stem == SessionPrefix \o session_id IN
    /\ stem \in DOMAIN arch
    /\ arch[stem].kind = "json"
    /\ IsDict(arch[stem].value)
    /\ arch[stem].value.id = session_id

\* C16: when the archive holds an intact record of a session S,
\* load_session_by_id(S.id) returns the content of that record, also when
\* other archived sessions have ids that contain S.id.
C16_RetrieveByExactId ==
    (last.op = "load_session_by_id" /\ IntactRecord(archive, last.session_id))
        => /\ ~last.raised
           /\ last.value = archive[SessionPrefix \o last.session_id].value

\* The attempt "1" has been looked up while the attempt "12" is archived too.
C16_Witness ==
    /\ last.op = "load_session_by_id"
    /\ last.session_id = <<"1">>
    /\ IntactRecord(archive, <<"1">>)
    /\ IntactRecord(archive, <<"1", "2">>)
    /\ ~last.raised
    /\ last.value.id = <<"1">>

\* The ids the archive files are named by.
ArchivedIds(arch) ==
    {SubSeq(stem, Len(SessionPrefix) + 1, Len(stem)) : stem \in DOMAIN arch}

\* C17: when no archived session has the query as its id, a lookup that
\* returns gives a session only if its id contains the query, and gives None
\* whenever no archived id contains the query.
C17_SubstringOfIdsOnly ==
    (/\ last.op = "load_session_by_id"
     /\ ~last.raised
     /\ last.session_id \notin ArchivedIds(archive))
        => /\ (~IsNone(last.value) /\ IsDict(last.value))
                  => IsSubstring(last.session_id, last.value.id)
           /\ (\A id \in ArchivedIds(archive) : ~IsSubstring(last.session_id, id))
                  => IsNone(last.value)

\* The archive files json.load reads.
ParsingFiles(arch) == {stem \in DOMAIN arch : arch[stem].kind = "json"}

\* C18: list_archived_sessions returns one summary for each archive file
\* that parses, skips the files that do not, never includes the live file,
\* orders the summaries by created_at descending, and gives each the counts
\* and the number of bookmarks of its session.
C18_ListArchived ==
    last.op = "list_archived_sessions"
        => /\ ~last.raised
           /\ Len(last.value) = Cardinality(ParsingFiles(archive))
           /\ {last.value[i].filepath : i \in 1..Len(last.value)} = ParsingFiles(archive)
           /\ \A i, j \in 1..Len(last.value) :
                  i < j => last.value[i].created_at >= last.value[j].created_at
           /\ \A i \in 1..Len(last.value) :
                  LET data == archive[last.value[i].filepath].value IN
                  /\ last.value[i].id = data.id
                  /\ last.value[i].answered_count = data.answered_count
                  /\ last.value[i].correct_count = data.correct_count
                  /\ last.value[i].incorrect_count = data.incorrect_count
                  /\ last.value[i].bookmarks = Len(data.bookmarks)

\* The handlers that move the cursor.
CursorHandlers ==
    {"goto_row", "load_and_display", "navigate_to_next", "navigate_to_answered",
     "load_session_handler"}

\* C19: no navigation, direct jump or load raises on a row index, and the
\* cursor it leaves (the index displayed and the session's current_row) is
\* a row of the split displayed.
C19_CursorClamped ==
    last.op \in CursorHandlers
        => /\ ~last.raised
           /\ ~IsNone(current_split) =>
                  /\ current_row_idx \in 0..(RowCount(current_split) - 1)
                  /\ ~IsNone(current_session) =>
                         current_session.current_row
                             \in 0..(RowCount(current_split) - 1)

\* C20: after every load_and_display and load_session_handler that displays
\* a split, the session's total_questions is the row count of that split.
C20_TotalQuestionsRefreshed ==
    (/\ last.op \in {"load_and_display", "load_session_handler"}
     /\ ~last.raised
     /\ ~IsNone(current_split)
     /\ ~IsNone(current_session))
        => current_session.total_questions = RowCount(current_split)


\* C21: in every reachable state of the viewer, every index in the session's
\* bookmarks lies in [0, total_questions).
C21_BookmarksInRange ==
    ~IsNone(current_session) =>
        \A b \in Range(current_session.bookmarks) :
            0 <= b /\ b < current_session.total_questions


\* The quotient num/den, held as the pair q, is defined and equals num/den.
IsQuotient(q, num, den) == q[2] # 0 /\ q[1] * den = num * q[2]
IsZero(q) == q[2] # 0 /\ q[1] = 0

\* C22: get_session_stats returns remaining = total_questions -
\* answered_count, accuracy = correct_count / answered_count * 100 when
\* answered_count > 0 and 0 otherwise, progress = answered_count /
\* total_questions * 100 when total_questions > 0 and 0 otherwise, never
\* dividing by zero, and it leaves the session unchanged.
C22_StatsDerived ==
    /\ [](last.op = "get_session_stats" =>
            LET total == Get(current_session, "total_questions", 0)
                answered == Get(current_session, "answered_count", 0)
                correct == Get(current_session, "correct_count", 0)
                r == last.result
            IN  /\ r.remaining = total - answered
                /\ IF answered > 0
                   THEN IsQuotient(r.accuracy, correct * 100, answered)
                   ELSE IsZero(r.accuracy)
                /\ IF total > 0
                   THEN IsQuotient(r.progress, answered * 100, total)
                   ELSE IsZero(r.progress))
    /\ [][last'.op = "get_session_stats" => current_session' = current_session]_vars

\* The statistics of a session with answers whose total_questions is 0 have
\* been computed: accuracy is a quotient and the guard of progress acts.
C22_Witness ==
    /\ last.op = "get_session_stats"
    /\ last.result.answered > 0
    /\ last.result.total = 0


\* C23: export_session_csv emits exactly one data row per answered index, in
\* ascending numeric order of the row index (2 before 10), each row carrying
\* that record's user answer, correct answer, correctness, tag and timestamp.
C23_ExportRowsInNumericOrder ==
    last.op = "export_session_csv" =>
        LET answers == Get(current_session, "answers", EmptyDict)
            rows == last.rows
        IN  /\ Len(rows) = Cardinality(DOMAIN answers)
            /\ {rows[i].row_idx : i \in 1..Len(rows)} = DOMAIN answers
            /\ \A i, j \in 1..Len(rows) :
                   i < j => int(rows[i].row_idx) < int(rows[j].row_idx)
            /\ \A i \in 1..Len(rows) :
                   LET a == answers[rows[i].row_idx] IN
                   /\ rows[i].user_answer = a.user_answer
                   /\ rows[i].correct_answer = a.correct_answer
                   /\ rows[i].is_correct = str_bool(a.is_correct)
                   /\ rows[i].query_object = a.query_object
                   /\ rows[i].timestamp = a.timestamp

\* A session whose answered rows are 2 and 10 has been exported.
C23_Witness ==
    /\ last.op = "export_session_csv"
    /\ Len(last.rows) = 2
    /\ last.rows[1].row_idx = <<"2">>
    /\ last.rows[2].row_idx = <<"1", "0">>


\* C24: running any analyze_session.py operation (--list, --current,
\* --session, --all, --export, or the default) leaves the live-session file
\* and every archived session file unchanged.
C24_ReportingIsReadOnly ==
    [][last'.op \in {"main", "export_session_csv"} =>
          live_file' = live_file /\ archive' = archive]_vars

\* A run with --session and --export has written the CSV file of an
\* archived session.
C24_Witness ==
    /\ last.op = "main"
    /\ last.args.export
    /\ last.args.session # <<>>
    /\ last.written # {}
    /\ archive # EmptyDict


(***************************************************************************)
(* C25.  Persistence round trip: when a call that ends in                  *)
(* save_current_session(S) is followed by load_current_session(), and S    *)
(* has at least one AnswerRecord and one bookmark, the session returned    *)
(* equals S in all fields: id, timestamps as the save refreshed them,      *)
(* dataset, split_subset, total_questions, counts, answers with the same   *)
(* row keys and records, bookmarks with the same indices, current_row.     *)
(***************************************************************************)
EndedInSave(l) ==
    /\ l.op \in {"record_answer", "record_answer_allow_change",
                 "toggle_bookmark", "save_current_session"}
    /\ l.op = "record_answer" => l.saved

HasAnswerAndBookmark(session) ==
    /\ DOMAIN session.answers # {}
    /\ Len(session.bookmarks) > 0

C26_SaveIsAtomic ==
    /\ last.op = "save_interrupted" =>
           \/ live_file = last.previous
           \/ live_file = last.new
    /\ [][(/\ last.op = "save_interrupted"
           /\ last.previous.kind = "json"
           /\ last'.op = "restart")
          => ~IsNone(last'.value)]_vars


(***************************************************************************)
(* C27.  Counts never go negative: in every state reachable through        *)
(* record_answer and record_answer_allow_change with any arguments,        *)
(* was_answered = True on a session whose counts are 0 or have drifted     *)
(* included, correct_count >= 0 and incorrect_count >= 0, and no call      *)
(* raises.                                                                 *)
(***************************************************************************)
C27_CountsNeverNegative ==
    /\ current_session.correct_count >= 0
    /\ current_session.incorrect_count >= 0
    /\ current_session.answered_count >= 0
    /\ \A is_correct \in BOOLEAN : ~record_answer_raises(current_session, is_correct)

\* The first record of a session was made with was_answered = True and
\* previous_correct = True: the correct count, 0 before, is 0 after.
C27_Witness ==
    /\ last.op = "record_answer_allow_change"
    /\ last.was_answered
    /\ last.previous_correct
    /\ ~last.had_record
    /\ ~last.is_correct
    /\ Cardinality(DOMAIN current_session.answers) = 1
    /\ current_session.correct_count = 0
    /\ current_session.incorrect_count = 1


(***************************************************************************)
(* C28.  Backward compatibility: when record_answer_allow_change is        *)
(* applied to a session that lacks any of answers, answered_count,         *)
(* correct_count, incorrect_count, the missing fields are first derived    *)
(* from the answers that already exist (answered = number of records,      *)
(* correct = records with is_correct, incorrect = the rest), so that after *)
(* the call answered_count = correct_count + incorrect_count = number of   *)
(* entries in answers.                                                     *)
(***************************************************************************)
CorrectRecords(session) ==
    {k \in DOMAIN session.answers : session.answers[k].is_correct}

C28_BackwardCompatible ==
    last.op = "record_answer_allow_change" =>
        /\ LegacyFields \subseteq DOMAIN current_session
        /\ CountsConsistent(current_session)
        /\ current_session.correct_count =
               Cardinality(CorrectRecords(current_session))
        /\ current_session.incorrect_count =
               Cardinality(DOMAIN current_session.answers)
                   - Cardinality(CorrectRecords(current_session))

\* A session with one record and none of the three counts has just got a
\* second record.
C28_Witness ==
    /\ last.op = "record_answer_allow_change"
    /\ last.lacked = {"answered_count", "correct_count", "incorrect_count"}
    /\ last.records = 1
    /\ ~last.was_answered
    /\ current_session.answered_count = 2
    /\ current_session.correct_count = 1
    /\ current_session.incorrect_count = 1


(***************************************************************************)
(* C29.  For every AnswerRecord stored in a session, is_correct is true    *)
(* exactly when the stored user_answer equals the stored correct_answer,   *)
(* as of recording time, for the records check_answer_and_save writes      *)
(* through record_answer_allow_change and those record_answer writes.      *)
(***************************************************************************)
C29_IsCorrectMatchesStored ==
    ~IsNone(current_session) =>
        \A k \in DOMAIN current_session.answers :
            LET a == current_session.answers[k]
            IN  a.is_correct <=> (a.user_answer = a.correct_answer)


(***************************************************************************)
(* C30.  AnswerRecords are never deleted: within one session (same id),    *)
(* once a row has an AnswerRecord it has one in every later state, under   *)
(* any sequence of record, change, bookmark, navigation, finish and        *)
(* save/load operations; the set of answered rows only grows and           *)
(* answered_count never decreases.                                         *)
(***************************************************************************)
\* Two values of the session variable are the same session: the same id,
\* given by the same call of create_empty_session.
SameSession(s, t) ==
    /\ ~IsNone(s)
    /\ ~IsNone(t)
    /\ s.id = t.id
    /\ s.created_at = t.created_at

C30_RecordsNeverDeleted ==
    [][SameSession(current_session, current_session') =>
           /\ DOMAIN current_session.answers \subseteq DOMAIN current_session'.answers
           /\ current_session'.answered_count >= current_session.answered_count]_vars


(***************************************************************************)
(* C31.  With no answered rows, get_next_answered_row returns None         *)
(* (distinct from every index) for either direction and any current index, *)
(* and navigate_to_answered does not treat it as index 0: the cursor       *)
(* (current_row and the displayed index) stays at the current row.         *)
(***************************************************************************)
NoAnswers(session) ==
    /\ ~IsNone(session)
    /\ DOMAIN session.answers = {}

C31_NoneIsNotRowZero ==
    [][(/\ last'.op = "navigate_to_answered"
        /\ ~IsNone(current_split)
        /\ NoAnswers(current_session))
       => /\ \A current_idx \in 0..RowCount(current_split), direction \in Directions :
                 /\ IsNone(get_next_answered_row(current_session, current_idx, direction))
                 /\ \A idx \in 0..RowCount(current_split) :
                        get_next_answered_row(current_session, current_idx, direction)
                            # Some(idx)
          /\ current_row_idx' = current_row_idx
          /\ live_file'.value.current_row = current_row_idx
          /\ ~last'.raised => current_session'.current_row = current_row_idx]_vars

\* The jump was made from a row other than row 0 of a session without answers.
C31_Witness ==
    /\ last.op = "navigate_to_answered"
    /\ ~last.raised
    /\ ~IsNone(current_split)
    /\ NoAnswers(current_session)
    /\ current_row_idx > 0
    /\ current_session.current_row = current_row_idx
    /\ live_file.value = current_session


(***************************************************************************)
(* C32.  The session cursor tracks the display: after every UI action      *)
(* (load, navigation, direct jump, answer, bookmark toggle, new session,   *)
(* finish, load-by-id), the live session's current_row equals the row      *)
(* index the UI displays and acts on (current_row_idx).                    *)
(***************************************************************************)
C32_CursorTracksDisplay ==
    (/\ ~IsNone(current_session)
     /\ ~IsNone(current_split)
     /\ last.op \in {"load_and_display", "navigate_to_next", "goto_row",
                     "navigate_to_answered", "check_answer_and_save",
                     "toggle_bookmark_handler", "start_new_session",
                     "finish_quiz", "load_session_handler"})
    => /\ current_session.current_row = current_row_idx
       /\ live_file.kind = "json"
       /\ live_file.value.current_row = current_row_idx


C34_ReplacedSessionIsArchived ==
    [][(/\ live_file.kind = "json"
        /\ live_file'.kind = "json"
        /\ live_file'.value.id # live_file.value.id
        /\ DOMAIN live_file.value.answers # {})
       => LET stem == SessionPrefix \o live_file.value.id IN
          /\ stem \in DOMAIN archive'
          /\ archive'[stem].kind = "json"
          /\ archive'[stem].value.answers = live_file.value.answers]_vars


(***************************************************************************)
(* C35.  Answers belong to the session's bound source: in every reachable  *)
(* state, every AnswerRecord in a session was recorded against a row of    *)
(* the split identified by that session's dataset and split_subset, also   *)
(* when a new session is started (start_new_session takes its identifiers  *)
(* from the dropdowns) while a split loaded before is still displayed.     *)
(***************************************************************************)
\* The record of row k holds the question and the answer of row k of the
\* split the session names.
RecordedAgainst(session, k) ==
    LET bound == Split(session.dataset, session.split_subset)
        a == session.answers[k]
    IN  /\ int(k) < RowCount(bound)
        /\ a.question = RowQuestion(bound, int(k))
        /\ a.correct_answer = RowAnswer(bound, int(k))
        /\ a.query_object = RowQueryObject(bound, int(k))

C35_AnswersBelongToBoundSource ==
    ~IsNone(current_session) =>
        \A k \in DOMAIN current_session.answers :
            RecordedAgainst(current_session, k)


(***************************************************************************)
(* C36.  In every reachable state of the UI, 0 <= answered_count <=        *)
(* total_questions, so that the remaining (total_questions -               *)
(* answered_count) is never negative and progress never exceeds 100%,      *)
(* also right after start_new_session followed by answering the row        *)
(* displayed.                                                              *)
(***************************************************************************)
C36_AnsweredWithinTotal ==
    ~IsNone(current_session) =>
        /\ 0 <= current_session.answered_count
        /\ current_session.answered_count <= current_session.total_questions
        /\ get_session_stats(current_session).answered
               <= get_session_stats(current_session).total


(***************************************************************************)
(* C37.  Review navigation is a complete cycle: with k >= 1 answered rows  *)
(* and no answers added in between, starting from any current index, k     *)
(* successive jump-to-answered steps in one direction (each from the index *)
(* returned before) visit every answered row exactly once, and from an     *)
(* answered row a +1 jump followed by a -1 jump returns to that row.       *)
(***************************************************************************)
C37_ReviewIsACycle ==
    last.op = "review" =>
        LET A == AnsweredRows(current_session) IN
        /\ Len(last.visited) = Cardinality(A)
        /\ Range(last.visited) = A
        /\ NoDuplicates(last.visited)
        /\ last.current_idx \in A =>
               /\ last.forward_back = Some(last.current_idx)
               /\ last.back_forward = Some(last.current_idx)

\* Three answered rows, reviewed backwards from the middle one: the jumps
\* wrap around from the first row to the last.
C37_Witness ==
    /\ last.op = "review"
    /\ AnsweredRows(current_session) = {0, 2, 10}
    /\ last.current_idx = 2
    /\ last.direction = -1
    /\ last.visited = <<0, 10, 2>>
    /\ last.forward_back = Some(2)


(***************************************************************************)
(* C38.  Skip navigation reaches every unanswered row and always           *)
(* terminates: get_next_unanswered_row performs at most total_rows steps   *)
(* for every input (with total_rows = 0 it returns current_idx without a   *)
(* modulo by zero), and if the evaluator repeatedly presses next and       *)
(* answers each row shown, every row in [0, total_rows) is eventually      *)
(* answered, after which the cursor no longer moves.                       *)
(***************************************************************************)
AllAnswered ==
    AnsweredRows(current_session) = 0..(RowCount(current_split) - 1)

Unanswered(session, total_rows) ==
    {r \in 0..(total_rows - 1) : ~is_row_answered(session, r)}

\* "Eventually every row is answered" is stated by its variant: while a row
\* is open, each round of press-and-answer answers a row that was open, so
\* after total_rows rounds none is left.
C38_SkipReachesEveryRow ==
    /\ \A total_rows \in 0..RowCount(current_split), direction \in Directions :
           \A current_idx \in 0..Max(0, total_rows - 1) :
               /\ unanswered_loop_steps(current_session, total_rows, direction,
                                        0, current_idx) <= total_rows
               /\ total_rows = 0 =>
                      get_next_unanswered_row(current_session, current_idx,
                                              total_rows, direction) = current_idx
    /\ (last.op = "navigate_to_next" /\ last.open > 0) =>
           /\ ~last.raised
           /\ current_row_idx \in Unanswered(current_session, RowCount(current_split))
    /\ (last.op = "check_answer_and_save" /\ last.open > 0) =>
           Cardinality(Unanswered(current_session, RowCount(current_split)))
               = last.open - 1
    /\ (last.op # "init" /\ last.rounds >= RowCount(current_split)) => AllAnswered
    /\ (last.op = "navigate_to_next" /\ last.open = 0) =>
           /\ ~last.raised
           /\ AllAnswered
           /\ current_row_idx = last.pressed_at
           /\ current_session.current_row = last.pressed_at

\* Every row of a split of RowsRotation rows was answered in this loop, and
\* "next" has been pressed once more.
C38_Witness ==
    /\ last.op = "navigate_to_next"
    /\ last.newly = RowsRotation
    /\ last.rounds = RowsRotation
    /\ last.open = 0
    /\ RowCount(current_split) = RowsRotation
    /\ AllAnswered


(***************************************************************************)
(* C39.  Only attempts with answers are archived: every archived record    *)
(* created through the interface (finish_quiz or start_new_session) has    *)
(* answered_count >= 1 at the time it is written; a session with zero      *)
(* answers is never archived by either action.                             *)
(***************************************************************************)
\* The archive files a step writes: the new ones and the ones replaced.
Written(before, after) ==
    {stem \in DOMAIN after : stem \notin DOMAIN before \/ after[stem] # before[stem]}

\* C39: a step of "new session" or "finish" writes at most one archive
\* record, that of the session held, with answered_count >= 1 and at least
\* one answer in it; when the session held has no answer, or there is none,
\* the step leaves the archive as it was.
C39_OnlyAnsweredAttemptsArchived ==
    [][last'.op \in {"start_new_session", "finish_quiz"}
          => /\ \A stem \in Written(archive, archive') :
                    /\ ~IsNone(current_session)
                    /\ stem = SessionPrefix \o current_session.id
                    /\ archive'[stem].kind = "json"
                    /\ archive'[stem].value.answered_count >= 1
                    /\ archive'[stem].value.answered_count
                           = current_session.answered_count
                    /\ DOMAIN archive'[stem].value.answers # {}
             /\ (IsNone(current_session)
                   \/ current_session.answered_count = 0
                   \/ DOMAIN current_session.answers = {})
                    => archive' = archive]_vars

\* "Finish" was pressed on a session with no answer while the archive holds
\* a record written earlier: nothing was added.
C39_Witness ==
    /\ last.op = "finish_quiz"
    /\ ~IsNone(current_session)
    /\ current_session.answered_count = 0
    /\ DOMAIN current_session.answers = {}
    /\ Cardinality(DOMAIN archive) = 1
    /\ \A stem \in DOMAIN archive :
           /\ archive[stem].value.answered_count >= 1
           /\ archive[stem].value.id # current_session.id

=============================================================================
